---- MODULE Spec2Model ----
(***************************************************************************)
(* Model of the native boundary layer of databento-dotnet:                 *)
(*   - handle_validation.hpp : HandleHeader, HandleRegistry,               *)
(*     ValidateAndCast, CreateValidatedHandle, DestroyValidatedHandle      *)
(*   - live_client_wrapper.cpp   : push-mode LiveClientWrapper entry points*)
(*   - live_blocking_wrapper.cpp : pull-mode LiveBlockingWrapper entry pts *)
(*   - symbol_map_wrapper.cpp    : Ts/Pit symbol map create/destroy        *)
(*                                                                         *)
(* Memory is modelled explicitly: a header heap and a wrapper heap, each a *)
(* small array of cells.  A cell that was freed keeps a content, because   *)
(* the code reads it again (ValidateAndCast dereferences the handle before *)
(* it consults the registry); what a freed header shows is not defined by  *)
(* the language, so it is chosen nondeterministically when the cell is     *)
(* freed (FreedMagic).                                                     *)
(*                                                                         *)
(* The specifications share the variables:                                 *)
(*   Spec         the exported entry points, called one at a time          *)
(*   SpecValidate ValidateAndCast over every header content and registry   *)
(*   SpecConc     caller threads inside entry points at the same time,     *)
(*                one step per access to shared memory                     *)
(*   SpecStream   a started push-mode stream: the client's processing      *)
(*                thread (metadata lambda, OnRecord) beside the caller     *)
(*   SpecTeardown SpecStream with dbento_live_destroy run step by step     *)
(*                beside the processing thread                             *)
(*   SpecCalls    the entry points that free nothing, called on one        *)
(*                push-mode and one pull-mode client with every argument   *)
(*                shape and every behaviour of the underlying client       *)
(*   SpecLog      create, subscribe, start, set_log_level and destroy      *)
(*                beside clients that log; `delete wrapper` in two steps   *)
(*   SpecLock     ValidateAndCast and the registry mutex step by step,     *)
(*                beside a running stream (fairness on the callers only)   *)
(*   SpecRestart  SpecStream with start called again on a running stream   *)
(*   SpecWait     SpecStream with dbento_live_stop_and_wait in two steps   *)
(*   SpecWaitFair SpecWait with a processing thread that is scheduled      *)
(*   SpecCreate   CreateValidatedHandle over every type and pointer        *)
(*   SpecSubscribe the six subscribe entry points with every dataset,      *)
(*                schema name and behaviour of the underlying client       *)
(*   SpecReentrant SpecTeardown with dbento_live_destroy called by a       *)
(*                callback of the stream (fairness on every thread)        *)
(*   SpecState    SpecStream with reconnect, destroy and the connection    *)
(*                state queried in between                                 *)
(*   SpecPull     a pull-mode client polled with                           *)
(*                dbento_live_blocking_next_record, with its stream        *)
(***************************************************************************)
EXTENDS Integers, Sequences, FiniteSets, TLC

\* ---------------------------------------------------------------- bounds
MaxHeaders == 2          \* cells of the header heap
MaxWrappers == 2         \* cells of the wrapper heap
MaxBuilds == 2           \* cap of the per-wrapper construction counter
MaxThreads == 2          \* caller threads inside entry points at once
MaxRecords == 3          \* records the gateway sends on one stream

NULL == 0
HAddr == 1..MaxHeaders
WAddr == 1..MaxWrappers
Handles == {NULL} \cup HAddr

\* ------------------------------------------------- handle_validation.hpp
HANDLE_MAGIC == "0xDA7ABE70"
TOMBSTONE == "0xDEADDEAD"
GARBAGE == "garbage"

LiveClient == 1
TsSymbolMap == 3
PitSymbolMap == 4
Metadata == 7
LiveBlocking == 11
HandleType == {LiveClient, TsSymbolMap, PitSymbolMap, Metadata, LiveBlocking}

ValidationError ==
    {"Success", "NullHandle", "InvalidMagic", "NotRegistered", "WrongType",
     "NullWrapperPtr"}

\* What the bytes of a freed HandleHeader can show at offset 0 when they are
\* read again: the tombstone written just before delete, the old magic (the
\* store to an object that is deleted next is a dead store the compiler may
\* drop), or whatever the allocator wrote into the free chunk.
FreedMagic == {TOMBSTONE, HANDLE_MAGIC, GARBAGE}

VARIABLES
    heap,        \* header heap: HAddr -> [alloc, magic, type, wrapper_ptr]
    handles_,    \* HandleRegistry::handles_
    wheap,       \* wrapper heap: WAddr -> wrapper object
    issued,      \* ghost: handles returned by a create, destroy not yet called
    stale,       \* ghost: handles whose destroy entry point has been called
    double_free, \* ghost: some object was deleted twice
    uaf,         \* ghost: a freed wrapper was read or written
    ret,         \* status of the last call made on the sequential API
    threads,     \* caller threads inside an entry point: position and locals
    delivery     \* ghost: what the processing thread has delivered so far

vars == <<heap, handles_, wheap, issued, stale, double_free, uaf, ret,
          threads, delivery>>

NoHeader == [alloc |-> FALSE, magic |-> GARBAGE, type |-> 0, wrapper_ptr |-> NULL]

\* HandleHeader::HandleHeader
HandleHeader(t, ptr) ==
    [alloc |-> TRUE, magic |-> HANDLE_MAGIC, type |-> t, wrapper_ptr |-> ptr]

\* HandleRegistry::IsRegistered
IsRegistered(reg, handle) == handle \in reg

\* ValidateAndCast with the type-tag check left out.
ValidateAndCastIn_NoTypeCheck(hp, reg, handle, expected_type) ==
    IF handle = NULL
    THEN [ptr |-> NULL, err |-> "NullHandle"]
    ELSE LET header == hp[handle] IN
         IF header.magic # HANDLE_MAGIC
         THEN [ptr |-> NULL, err |-> "InvalidMagic"]
         ELSE IF ~IsRegistered(reg, handle)
         THEN [ptr |-> NULL, err |-> "NotRegistered"]
         ELSE IF header.wrapper_ptr = NULL
         THEN [ptr |-> NULL, err |-> "NullWrapperPtr"]
         ELSE [ptr |-> header.wrapper_ptr, err |-> "Success"]

\* ValidateAndCast with the registry consulted before the magic number.
ValidateAndCastIn_RegistryFirst(hp, reg, handle, expected_type) ==
    IF handle = NULL
    THEN [ptr |-> NULL, err |-> "NullHandle"]
    ELSE LET header == hp[handle] IN
         IF ~IsRegistered(reg, handle)
         THEN [ptr |-> NULL, err |-> "NotRegistered"]
         ELSE IF header.magic # HANDLE_MAGIC
         THEN [ptr |-> NULL, err |-> "InvalidMagic"]
         ELSE IF header.type # expected_type
         THEN [ptr |-> NULL, err |-> "WrongType"]
         ELSE IF header.wrapper_ptr = NULL
         THEN [ptr |-> NULL, err |-> "NullWrapperPtr"]
         ELSE [ptr |-> header.wrapper_ptr, err |-> "Success"]

\* ValidateAndCast over an explicit memory and registry (hp, reg).
ValidateAndCastIn(hp, reg, handle, expected_type) ==
    IF handle = NULL
    THEN [ptr |-> NULL, err |-> "NullHandle"]
    ELSE LET header == hp[handle] IN
         IF header.magic # HANDLE_MAGIC
         THEN [ptr |-> NULL, err |-> "InvalidMagic"]
         ELSE IF ~IsRegistered(reg, handle)
         THEN [ptr |-> NULL, err |-> "NotRegistered"]
         ELSE IF header.type # expected_type
         THEN [ptr |-> NULL, err |-> "WrongType"]
         ELSE IF header.wrapper_ptr = NULL
         THEN [ptr |-> NULL, err |-> "NullWrapperPtr"]
         ELSE [ptr |-> header.wrapper_ptr, err |-> "Success"]

ValidateAndCast(handle, expected_type) ==
    ValidateAndCastIn(heap, handles_, handle, expected_type)

FreeHeaders == {a \in HAddr : ~heap[a].alloc}
FreeWrappers == {w \in WAddr : ~wheap[w].alloc}

\* ----------------------------------------------------- wrapper objects
\* One record shape for every wrapper kind; the symbol map and metadata
\* wrappers use only alloc/kind/hdr.
\*   client     : 0 = empty unique_ptr, n = the n-th client built for it
\*   built      : ghost, number of clients constructed for this object
\*   once       : client_init_flag of LiveClientWrapper ("idle" | "active" | "done")
\*   is_running : LiveClientWrapper::is_running
\*   dataset    : the stored dataset string
\*   record_callback, metadata_callback, error_callback :
\*                TRUE iff the stored function pointer is not null
\*   user_data  : the context pointer handed back to the callbacks
\*   callback_mutex : "free", or who holds it ("thread" | "destroy")
\*   log_receiver : the StderrLogReceiver the wrapper owns: "live" from the
\*                wrapper's constructor on, "freed" once the unique_ptr member
\*                has been destroyed ("none": the wrapper kind has no such member)
\*   min_level  : StderrLogReceiver::min_level_
\*   sink       : the ILogReceiver pointer the client was built with: "own"
\*                (log_receiver.get()), "null" while there is no client
\*   thread     : the client's processing thread: "none" before Start,
\*                "metadata" about to run the metadata lambda, "wait" between
\*                records, "bridge" inside OnRecord, "exited" after Stop,
\*                "escaped" after an exception left a callback
NoWrapper ==
    [alloc |-> FALSE, kind |-> 0, hdr |-> NULL, client |-> NULL, built |-> 0,
     once |-> "idle", is_running |-> FALSE, dataset |-> "",
     record_callback |-> FALSE, metadata_callback |-> FALSE,
     error_callback |-> FALSE, user_data |-> NULL, callback_mutex |-> "free",
     log_receiver |-> "none", min_level |-> "Info", sink |-> "null",
     thread |-> "none"]

NewWrapper(kind, h, ds) ==
    [alloc |-> TRUE, kind |-> kind, hdr |-> h, client |-> NULL, built |-> 0,
     once |-> "idle", is_running |-> FALSE, dataset |-> ds,
     record_callback |-> FALSE, metadata_callback |-> FALSE,
     error_callback |-> FALSE, user_data |-> NULL, callback_mutex |-> "free",
     log_receiver |-> IF kind \in {LiveClient, LiveBlocking} THEN "live"
                      ELSE "none",
     min_level |-> "Info", sink |-> "null",
     thread |-> "none"]

\* delete wrapper: the memory is released.  The client's processing thread
\* is a thread of the process, not a part of that memory: nothing in
\* dbento_live_destroy waits for it beyond the bounded BlockForStop, whose
\* result is ignored, so it is where it was when the wrapper is freed.
Deleted(wr) == [NoWrapper EXCEPT !.thread = wr.thread]

\* The wrapper a handle points at is gone: freed, or its cell reused.
Dangling(h, w) == ~wheap[w].alloc \/ wheap[w].hdr # h

\* CreateValidatedHandle without the test of the wrapper pointer.
CreateValidatedHandle_NoNullTest(hp, reg, a, type, wrapper_ptr) ==
    [handle |-> a,
     heap |-> [hp EXCEPT ![a] = HandleHeader(type, wrapper_ptr)],
     reg |-> reg \cup {a}]

\* CreateValidatedHandle: `a` is the address operator new returns.
\* Returns the handle and the new header heap and registry.
CreateValidatedHandle(hp, reg, a, type, wrapper_ptr) ==
    IF wrapper_ptr = NULL
    THEN [handle |-> NULL, heap |-> hp, reg |-> reg]
    ELSE [handle |-> a,
          heap |-> [hp EXCEPT ![a] = HandleHeader(type, wrapper_ptr)],
          reg |-> reg \cup {a}]

\* DestroyValidatedHandle: Unregister, write the tombstone, delete.  `m` is
\* what the freed bytes show afterwards (one of FreedMagic).
DestroyValidatedHandle(hp, reg, handle, m) ==
    IF handle = NULL
    THEN [heap |-> hp, reg |-> reg, twice |-> FALSE]
    ELSE [heap |-> [hp EXCEPT ![handle] = [NoHeader EXCEPT !.magic = m]],
          reg |-> reg \ {handle},
          twice |-> ~hp[handle].alloc]

\* Strings as the C API sees them: a null pointer, the empty string, a name.
NULLSTR == "<null>"
Datasets == {"GLBX", "XNAS"}
CStrings == {NULLSTR, ""} \cup Datasets

\* ValidateNonEmptyString: TRUE iff it does not throw.
ValidateNonEmptyString(value) == value # NULLSTR /\ value # ""

\* Ghost bookkeeping shared by the create entry points.
Issue(h) ==
    /\ issued' = (IF h = NULL THEN issued ELSE issued \cup {h})
    /\ stale' = stale \ {h}

\* Ghost bookkeeping of a destroy entry point for wrappers of `type`: the
\* caller has now destroyed h, whatever the code did.
Retire(h, type) ==
    IF h \in issued /\ heap[h].type = type
    THEN issued' = issued \ {h} /\ stale' = stale \cup {h}
    ELSE UNCHANGED <<issued, stale>>

\* What the caller observes of a call:
\*   status  : the int the entry point returned (0 for the void ones)
\*   ptr     : the handle a creating entry point returned
\*   err     : the ValidationError of its handle validation
\*   ub      : the call went through a pointer to a freed wrapper
\*   msg     : the text copied to error_buffer, where the model tells texts
\*             apart ("" otherwise)
\*   called  : the method of the underlying client the call invoked ("" if none)
\*   escaped : an exception left the entry point instead of a return
\*   written : dbento_live_blocking_next_record wrote its output parameters
\*   log     : <<>>, or <<level, "stderr" | "dropped">> when the step was the
\*             client handing a message of that level to its logging sink
NoReturn ==
    [status |-> 0, ptr |-> NULL, err |-> "Success", ub |-> FALSE, msg |-> "",
     called |-> "", escaped |-> FALSE, written |-> FALSE, log |-> <<>>]

\* A call made as one step from outside the threaded scenarios: r is what it
\* returned.
Returned(r) ==
    /\ ret' = r
    /\ UNCHANGED <<threads, delivery>>

\* What the last call returned: a status for the int-returning entry points
\* (0 for the void ones), a pointer for the creating ones, and the
\* ValidationError its handle validation produced ("Success" if it made none).
Return(op, status) ==
    Returned([NoReturn EXCEPT !.status = status])

ReturnHandle(op, handle) ==
    Returned([NoReturn EXCEPT !.ptr = handle])

\* The call went through a wrapper pointer whose object is gone: behaviour
\* is undefined from here on, so only the fact is recorded.
Undefined(op) ==
    /\ uaf' = TRUE
    /\ Returned([NoReturn EXCEPT !.ub = TRUE])
    /\ UNCHANGED <<heap, handles_, wheap, issued, stale, double_free>>

\* An entry point that returns `status` and changes nothing.
Fail(op, status) ==
    /\ Return(op, status)
    /\ UNCHANGED <<heap, handles_, wheap, issued, stale, double_free, uaf>>

\* An entry point whose handle validation failed with v.err.
Reject(op, v, status) ==
    /\ Returned([NoReturn EXCEPT !.status = status, !.err = v.err])
    /\ UNCHANGED <<heap, handles_, wheap, issued, stale, double_free, uaf>>

\* An entry point that returns `status` and leaves wrapper w as `wr`.
Done(op, status, w, wr) ==
    /\ Return(op, status)
    /\ wheap' = [wheap EXCEPT ![w] = wr]
    /\ UNCHANGED <<heap, handles_, issued, stale, double_free, uaf>>

\* An entry point that returns `status` with the text msg in error_buffer
\* and leaves wrapper w as `wr`.
DoneMsg(op, status, msg, w, wr) ==
    /\ Returned([NoReturn EXCEPT !.status = status, !.msg = msg])
    /\ wheap' = [wheap EXCEPT ![w] = wr]
    /\ UNCHANGED <<heap, handles_, issued, stale, double_free, uaf>>

\* An entry point that returns `status` with the text msg in error_buffer
\* and changes nothing.
FailMsg(op, status, msg) ==
    /\ Returned([NoReturn EXCEPT !.status = status, !.msg = msg])
    /\ UNCHANGED <<heap, handles_, wheap, issued, stale, double_free, uaf>>

\* What a call of a method of the underlying client does: it returns, it
\* throws an exception derived from std::exception, or it throws anything
\* else.
CallOutcomes == {"ok", "std::exception", "other"}

\* The tail of an entry point whose body is
\*   try { ...; wrapper->client->method(...); ...; return status; }
\*   catch (const std::exception& e) { SafeStrCopy(..., e.what()); return -1; }
\* with wrapper w left as wr: a standard exception is turned into -1, any
\* other thrown object leaves the entry point (status is then not a value
\* the caller receives).
Invoke(op, method, call, status, w, wr) ==
    /\ Returned([NoReturn EXCEPT
                    !.status = IF call = "ok" THEN status
                               ELSE IF call = "std::exception" THEN -1 ELSE 0,
                    !.msg = IF call = "std::exception" THEN "e.what()" ELSE "",
                    !.called = method,
                    !.escaped = (call = "other")])
    /\ wheap' = [wheap EXCEPT ![w] = wr]
    /\ UNCHANGED <<heap, handles_, issued, stale, double_free, uaf>>

\* ------------------------------------------------ common_helpers.hpp
MAX_SYMBOLS == 100000
Schemas == {"mbo", "trades"}
SchemaStrings == {NULLSTR, "", "bogus"} \cup Schemas

\* ParseSchema that knows every name.
ParseSchema_AnyName(schema_str) == schema_str \in SchemaStrings

\* ParseSchema: TRUE iff it does not throw (it throws
\* std::runtime_error("Unknown schema: ...") for any other string).
ParseSchema(schema_str) == schema_str \in Schemas

\* A symbol array argument: the pointer may be null, count is symbol_count,
\* elem tells whether the array holds a null or an over-long element.
SymbolArgs ==
    [isnull : BOOLEAN, count : {0, 1, MAX_SYMBOLS, MAX_SYMBOLS + 1},
     elem : {"ok", "null", "long"}]

\* ValidateSymbolArray: TRUE iff it does not throw.
ValidateSymbolArray(symbols) ==
    /\ ~(symbols.count > 0 /\ symbols.isnull)
    /\ symbols.count <= MAX_SYMBOLS
    /\ (symbols.count > 0 => symbols.elem = "ok")

\* ------------------------------------------- live_client_wrapper.cpp
\* The client a construction yields: a new instance, numbered per wrapper.
Build(wr) ==
    LET n == IF wr.built < MaxBuilds THEN wr.built + 1 ELSE wr.built
    IN [wr EXCEPT !.client = n, !.built = n,
                  !.sink = IF wr.log_receiver = "none" THEN "null" ELSE "own"]

\* LiveClientWrapper::EnsureClientCreated, run by one thread to completion.
\* build_ok: BuildThreaded returned (it throws when it cannot connect).
\* call_once leaves the flag unset when the callable throws.
LiveClientWrapper_EnsureClientCreated(wr, build_ok) ==
    IF wr.once = "done" THEN [wr |-> wr, threw |-> FALSE]
    ELSE IF build_ok
         THEN [wr |-> [Build(wr) EXCEPT !.once = "done"], threw |-> FALSE]
         ELSE [wr |-> wr, threw |-> TRUE]

dbento_live_create(api_key) ==
    IF api_key = NULLSTR
    THEN Fail("dbento_live_create", NULL)
    ELSE \E w \in FreeWrappers, a \in FreeHeaders :
           LET c == CreateValidatedHandle(heap, handles_, a, LiveClient, w) IN
           /\ wheap' = [wheap EXCEPT ![w] = NewWrapper(LiveClient, a, "")]
           /\ heap' = c.heap
           /\ handles_' = c.reg
           /\ Issue(c.handle)
           /\ ReturnHandle("dbento_live_create", c.handle)
           /\ UNCHANGED <<double_free, uaf>>

\* dataset may be a null pointer (treated as ""); a non-empty dataset
\* builds the client at once.  A throwing build leaves through the catch
\* block: nullptr is returned and the wrapper just allocated is not freed.
dbento_live_create_ex(api_key, dataset, build_ok) ==
    IF api_key = NULLSTR
    THEN Fail("dbento_live_create_ex", NULL)
    ELSE \E w \in FreeWrappers, a \in FreeHeaders :
           LET ds == IF dataset = NULLSTR THEN "" ELSE dataset
               w0 == NewWrapper(LiveClient, NULL, ds)
               e == IF ds # ""
                    THEN LiveClientWrapper_EnsureClientCreated(w0, build_ok)
                    ELSE [wr |-> w0, threw |-> FALSE]
               c == CreateValidatedHandle(heap, handles_, a, LiveClient, w)
           IN IF e.threw
              THEN /\ wheap' = [wheap EXCEPT ![w] = w0]
                   /\ ReturnHandle("dbento_live_create_ex", NULL)
                   /\ UNCHANGED <<heap, handles_, issued, stale, double_free, uaf>>
              ELSE /\ wheap' = [wheap EXCEPT ![w] = [e.wr EXCEPT !.hdr = a]]
                   /\ heap' = c.heap
                   /\ handles_' = c.reg
                   /\ Issue(c.handle)
                   /\ ReturnHandle("dbento_live_create_ex", c.handle)
                   /\ UNCHANGED <<double_free, uaf>>

\* The three push-mode subscribe entry points share one body; they differ
\* in when the dataset argument is stored (plain: always; snapshot/replay:
\* only while the stored dataset is empty) and in the collaborator method.
\* build_ok: the collaborator's constructor did not throw; call: what the
\* collaborator's method did.
LiveSubscribe(op, h, dataset, schema, symbols, build_ok, call) ==
    LET v == ValidateAndCast(h, LiveClient) IN
    IF v.ptr = NULL THEN Reject(op, v, -1)
    ELSE IF Dangling(h, v.ptr) THEN Undefined(op)
    ELSE LET w == v.ptr
             wr == wheap[w]
             stored == IF op = "dbento_live_subscribe" \/ wr.dataset = ""
                       THEN [wr EXCEPT !.dataset = dataset] ELSE wr
             e == LiveClientWrapper_EnsureClientCreated(stored, build_ok)
         IN IF ~(/\ ValidateNonEmptyString(dataset)
                 /\ ValidateNonEmptyString(schema)
                 /\ ValidateSymbolArray(symbols))
            THEN Fail(op, -1)
            ELSE IF ~ParseSchema(schema)
            THEN DoneMsg(op, -1, "Unknown schema", w, stored)
            ELSE IF e.threw THEN Done(op, -1, w, e.wr)
            ELSE Invoke(op, IF op = "dbento_live_subscribe_with_snapshot"
                            THEN "SubscribeWithSnapshot" ELSE "Subscribe",
                        call, 0, w, e.wr)

dbento_live_subscribe(h, dataset, schema, symbols, build_ok, call) ==
    LiveSubscribe("dbento_live_subscribe", h, dataset, schema, symbols,
                  build_ok, call)

dbento_live_subscribe_with_snapshot(h, dataset, schema, symbols, build_ok, call) ==
    LiveSubscribe("dbento_live_subscribe_with_snapshot", h, dataset, schema,
                  symbols, build_ok, call)

dbento_live_subscribe_with_replay(h, dataset, schema, symbols, build_ok, call) ==
    LiveSubscribe("dbento_live_subscribe_with_replay", h, dataset, schema,
                  symbols, build_ok, call)

\* dbento_live_start and dbento_live_start_ex.  cb says which of the callback
\* arguments are non-null.  The callbacks and the flag are stored before
\* client->Start, which may throw (call # "ok"); when it does not, the
\* client's processing thread exists from here on.
StoreCallbacks(wr, cb, ex) ==
    [wr EXCEPT !.record_callback = cb.on_record,
               !.metadata_callback = IF ex THEN cb.on_metadata ELSE @,
               !.error_callback = cb.on_error,
               !.user_data = cb.user_data,
               !.is_running = TRUE]

\* LiveStart that stores the callbacks, the context and the flag before it
\* tests the record callback.
LiveStart_StoreFirst(op, h, cb, ex, call) ==
    LET v == ValidateAndCast(h, LiveClient) IN
    IF v.ptr = NULL THEN Reject(op, v, -1)
    ELSE IF Dangling(h, v.ptr) THEN Undefined(op)
    ELSE LET w == v.ptr
             wr == StoreCallbacks(wheap[w], cb, ex)
         IN IF wheap[w].client = NULL
            THEN FailMsg(op, -1, "Client not initialized")
            ELSE IF ~cb.on_record
            THEN /\ Returned([NoReturn EXCEPT
                                !.status = -2,
                                !.msg = "Record callback cannot be null"])
                 /\ wheap' = [wheap EXCEPT ![w] = wr]
                 /\ UNCHANGED <<heap, handles_, issued, stale, double_free, uaf>>
            ELSE Invoke(op, "Start", call, 0, w,
                        IF call = "ok"
                        THEN [wr EXCEPT !.thread = IF ex /\ cb.on_metadata
                                                   THEN "metadata" ELSE "wait"]
                        ELSE wr)

LiveStart(op, h, cb, ex, call) ==
    LET v == ValidateAndCast(h, LiveClient) IN
    IF v.ptr = NULL THEN Reject(op, v, -1)
    ELSE IF Dangling(h, v.ptr) THEN Undefined(op)
    ELSE LET w == v.ptr
             wr == StoreCallbacks(wheap[w], cb, ex)
         IN IF wheap[w].client = NULL
            THEN FailMsg(op, -1, "Client not initialized")
            ELSE IF ~cb.on_record
            THEN FailMsg(op, -2, "Record callback cannot be null")
            ELSE Invoke(op, "Start", call, 0, w,
                        IF call = "ok"
                        THEN [wr EXCEPT !.thread = IF ex /\ cb.on_metadata
                                                   THEN "metadata" ELSE "wait"]
                        ELSE wr)

dbento_live_start(h, cb, call) ==
    LiveStart("dbento_live_start", h, cb, FALSE, call)

dbento_live_start_ex(h, cb, call) ==
    LiveStart("dbento_live_start_ex", h, cb, TRUE, call)

\* dbento_live_stop that also drops the stored callbacks and context.
dbento_live_stop_DropCallbacks(h) ==
    LET v == ValidateAndCast(h, LiveClient) IN
    IF v.ptr = NULL THEN Reject("dbento_live_stop", v, 0)
    ELSE IF Dangling(h, v.ptr) THEN Undefined("dbento_live_stop")
    ELSE Done("dbento_live_stop", 0, v.ptr,
              [wheap[v.ptr] EXCEPT !.is_running = FALSE,
                                   !.record_callback = FALSE,
                                   !.metadata_callback = FALSE,
                                   !.error_callback = FALSE,
                                   !.user_data = NULL])

dbento_live_stop(h) ==
    LET v == ValidateAndCast(h, LiveClient) IN
    IF v.ptr = NULL THEN Reject("dbento_live_stop", v, 0)
    ELSE IF Dangling(h, v.ptr) THEN Undefined("dbento_live_stop")
    ELSE Done("dbento_live_stop", 0, v.ptr,
              [wheap[v.ptr] EXCEPT !.is_running = FALSE])

\* blocked: what BlockForStop did ("stop": the thread has exited,
\* "continue": the wait timed out, "throw": it threw a standard exception,
\* "other": it threw anything else).
dbento_live_stop_and_wait(h, blocked) ==
    LET op == "dbento_live_stop_and_wait"
        v == ValidateAndCast(h, LiveClient) IN
    IF v.ptr = NULL THEN Reject(op, v, -1)
    ELSE IF Dangling(h, v.ptr) THEN Undefined(op)
    ELSE LET w == v.ptr
             wr == [wheap[w] EXCEPT !.is_running = FALSE]
             status == IF blocked = "continue" THEN 1
                       ELSE IF blocked = "throw" THEN -2
                       ELSE IF blocked = "other" THEN -3 ELSE 0
         IN IF wr.client = NULL THEN Done(op, 0, w, wr)
            ELSE /\ Returned([NoReturn EXCEPT !.status = status,
                                               !.called = "BlockForStop"])
                 /\ wheap' = [wheap EXCEPT ![w] = wr]
                 /\ UNCHANGED <<heap, handles_, issued, stale, double_free, uaf>>

\* dbento_live_destroy as one atomic call: flag, bounded join, lock,
\* delete wrapper, DestroyValidatedHandle.
dbento_live_destroy(h, m) ==
    LET op == "dbento_live_destroy"
        v == ValidateAndCast(h, LiveClient) IN
    IF v.ptr = NULL
    THEN /\ Returned([NoReturn EXCEPT !.err = v.err])
         /\ Retire(h, LiveClient)
         /\ UNCHANGED <<heap, handles_, wheap, double_free, uaf>>
    ELSE LET w == v.ptr
             d == DestroyValidatedHandle(heap, handles_, h, m)
         IN /\ wheap' = [wheap EXCEPT ![w] = Deleted(wheap[w])]
            /\ heap' = d.heap
            /\ handles_' = d.reg
            /\ double_free' = (double_free \/ d.twice \/ Dangling(h, w))
            /\ uaf' = (uaf \/ Dangling(h, w))
            /\ Retire(h, LiveClient)
            /\ Return(op, 0)

dbento_live_reconnect(h, call) ==
    LET op == "dbento_live_reconnect"
        v == ValidateAndCast(h, LiveClient) IN
    IF v.ptr = NULL THEN Reject(op, v, -1)
    ELSE IF Dangling(h, v.ptr) THEN Undefined(op)
    ELSE LET w == v.ptr IN
         IF wheap[w].client = NULL
         THEN FailMsg(op, -2, "Client not initialized")
         ELSE Invoke(op, "Reconnect", call, 0, w,
                     IF call = "ok" THEN [wheap[w] EXCEPT !.is_running = FALSE]
                     ELSE wheap[w])

dbento_live_resubscribe(h, call) ==
    LET op == "dbento_live_resubscribe"
        v == ValidateAndCast(h, LiveClient) IN
    IF v.ptr = NULL THEN Reject(op, v, -1)
    ELSE IF Dangling(h, v.ptr) THEN Undefined(op)
    ELSE LET w == v.ptr IN
         IF wheap[w].client = NULL
         THEN FailMsg(op, -2, "Client not initialized")
         ELSE Invoke(op, "Resubscribe", call, 0, w, wheap[w])

\* ------------------------------------------ live_blocking_wrapper.cpp
\* EnsureClientCreated without the test of the client pointer: every call
\* builds.
LiveBlockingWrapper_EnsureClientCreated_Rebuild(wr, build_ok) ==
    IF build_ok THEN [wr |-> Build(wr), threw |-> FALSE]
    ELSE [wr |-> wr, threw |-> TRUE]

\* LiveBlockingWrapper::EnsureClientCreated, run by one thread to
\* completion: an unguarded test of the client pointer.
LiveBlockingWrapper_EnsureClientCreated(wr, build_ok) ==
    IF wr.client # NULL THEN [wr |-> wr, threw |-> FALSE]
    ELSE IF build_ok THEN [wr |-> Build(wr), threw |-> FALSE]
    ELSE [wr |-> wr, threw |-> TRUE]

dbento_live_blocking_create_ex(api_key, dataset) ==
    LET op == "dbento_live_blocking_create_ex" IN
    IF ~(ValidateNonEmptyString(api_key) /\ ValidateNonEmptyString(dataset))
    THEN Fail(op, NULL)
    ELSE \E w \in FreeWrappers, a \in FreeHeaders :
           LET c == CreateValidatedHandle(heap, handles_, a, LiveBlocking, w) IN
           /\ wheap' = [wheap EXCEPT ![w] = NewWrapper(LiveBlocking, a, dataset)]
           /\ heap' = c.heap
           /\ handles_' = c.reg
           /\ Issue(c.handle)
           /\ ReturnHandle(op, c.handle)
           /\ UNCHANGED <<double_free, uaf>>

\* The three pull-mode subscribe entry points have the same body up to the
\* collaborator method called last.
BlockingSubscribe(op, h, dataset, schema, symbols, build_ok, call) ==
    LET v == ValidateAndCast(h, LiveBlocking) IN
    IF v.ptr = NULL THEN Reject(op, v, -1)
    ELSE IF Dangling(h, v.ptr) THEN Undefined(op)
    ELSE LET w == v.ptr
             e == LiveBlockingWrapper_EnsureClientCreated(wheap[w], build_ok)
         IN IF ~(ValidateNonEmptyString(dataset) /\ ValidateNonEmptyString(schema))
            THEN Fail(op, -1)
            ELSE IF symbols.isnull \/ symbols.count = 0 THEN Fail(op, -2)
            ELSE IF e.threw THEN Done(op, -1, w, e.wr)
            ELSE IF symbols.elem = "null" THEN Done(op, -3, w, e.wr)
            ELSE IF ~ParseSchema(schema)
            THEN DoneMsg(op, -1, "Unknown schema", w, e.wr)
            ELSE Invoke(op, IF op = "dbento_live_blocking_subscribe_with_snapshot"
                            THEN "SubscribeWithSnapshot" ELSE "Subscribe",
                        call, 0, w, e.wr)

dbento_live_blocking_subscribe(h, dataset, schema, symbols, build_ok, call) ==
    BlockingSubscribe("dbento_live_blocking_subscribe", h, dataset, schema,
                      symbols, build_ok, call)

dbento_live_blocking_subscribe_with_replay(h, dataset, schema, symbols, build_ok, call) ==
    BlockingSubscribe("dbento_live_blocking_subscribe_with_replay", h, dataset,
                      schema, symbols, build_ok, call)

dbento_live_blocking_subscribe_with_snapshot(h, dataset, schema, symbols, build_ok, call) ==
    BlockingSubscribe("dbento_live_blocking_subscribe_with_snapshot", h, dataset,
                      schema, symbols, build_ok, call)

\* BlockingCall without the test of the client pointer.
BlockingCall_NoClientTest(op, method, h, call) ==
    LET v == ValidateAndCast(h, LiveBlocking) IN
    IF v.ptr = NULL THEN Reject(op, v, -1)
    ELSE IF Dangling(h, v.ptr) THEN Undefined(op)
    ELSE Invoke(op, method, call, 0, v.ptr, wheap[v.ptr])

\* Entry points of the shape `if (!wrapper || !wrapper->client) return -1;
\* wrapper->client->Method(); return 0;` (reconnect, resubscribe).
BlockingCall(op, method, h, call) ==
    LET v == ValidateAndCast(h, LiveBlocking) IN
    IF v.ptr = NULL THEN Reject(op, v, -1)
    ELSE IF Dangling(h, v.ptr) THEN Undefined(op)
    ELSE IF wheap[v.ptr].client = NULL
    THEN FailMsg(op, -1, "Client not initialized")
    ELSE Invoke(op, method, call, 0, v.ptr, wheap[v.ptr])

dbento_live_blocking_reconnect(h, call) ==
    BlockingCall("dbento_live_blocking_reconnect", "Reconnect", h, call)

dbento_live_blocking_resubscribe(h, call) ==
    BlockingCall("dbento_live_blocking_resubscribe", "Resubscribe", h, call)

\* metadata_buffer: "null", "small" (the JSON does not fit) or "ok".
dbento_live_blocking_start(h, metadata_buffer, call) ==
    LET op == "dbento_live_blocking_start"
        v == ValidateAndCast(h, LiveBlocking) IN
    IF v.ptr = NULL THEN Reject(op, v, -1)
    ELSE IF Dangling(h, v.ptr) THEN Undefined(op)
    ELSE IF wheap[v.ptr].client = NULL
    THEN FailMsg(op, -1, "Client not initialized")
    ELSE IF metadata_buffer = "null" THEN Fail(op, -2)
    ELSE Invoke(op, "Start", call,
                IF metadata_buffer = "small" THEN -3 ELSE 0,
                v.ptr, wheap[v.ptr])

\* What NextRecord does: it yields a record, the overload with a timeout
\* returns a null pointer ("timeout"), or it throws.
NextRecordOutcomes == {"record", "timeout", "std::exception", "other"}

\* dbento_live_blocking_next_record that takes the null pointer of a
\* timed-out NextRecord for a failure.
dbento_live_blocking_next_record_TimeoutIsError(h, outputs, fits, timeout_ms, next) ==
    LET op == "dbento_live_blocking_next_record"
        v == ValidateAndCast(h, LiveBlocking) IN
    /\ timeout_ms < 0 => next # "timeout"
    /\ IF v.ptr = NULL THEN Reject(op, v, -1)
       ELSE IF Dangling(h, v.ptr) THEN Undefined(op)
       ELSE IF wheap[v.ptr].client = NULL
       THEN FailMsg(op, -1, "Client not initialized")
       ELSE IF ~outputs
       THEN FailMsg(op, -2, "Output parameters cannot be null")
       ELSE IF next \in {"std::exception", "other"}
       THEN Invoke(op, "NextRecord", next, 0, v.ptr, wheap[v.ptr])
       ELSE /\ Returned([NoReturn EXCEPT
                           !.status = IF next = "timeout" THEN -1
                                      ELSE IF ~fits THEN -3 ELSE 0,
                           !.called = "NextRecord",
                           !.written = (next = "record" /\ fits)])
            /\ UNCHANGED <<heap, handles_, wheap, issued, stale, double_free, uaf>>

\* outputs: record_buffer, out_record_length and out_record_type are all
\* non-null; fits: the record is no longer than record_buffer_size.  The
\* overload without a timeout returns a reference, so it has no "timeout"
\* outcome.
dbento_live_blocking_next_record(h, outputs, fits, timeout_ms, next) ==
    LET op == "dbento_live_blocking_next_record"
        v == ValidateAndCast(h, LiveBlocking) IN
    /\ timeout_ms < 0 => next # "timeout"
    /\ IF v.ptr = NULL THEN Reject(op, v, -1)
       ELSE IF Dangling(h, v.ptr) THEN Undefined(op)
       ELSE IF wheap[v.ptr].client = NULL
       THEN FailMsg(op, -1, "Client not initialized")
       ELSE IF ~outputs
       THEN FailMsg(op, -2, "Output parameters cannot be null")
       ELSE IF next \in {"std::exception", "other"}
       THEN Invoke(op, "NextRecord", next, 0, v.ptr, wheap[v.ptr])
       ELSE /\ Returned([NoReturn EXCEPT
                           !.status = IF next = "timeout" THEN 1
                                      ELSE IF ~fits THEN -3 ELSE 0,
                           !.msg = IF next = "record" /\ ~fits
                                   THEN "Record buffer too small" ELSE "",
                           !.called = "NextRecord",
                           !.written = (next = "record" /\ fits)])
            /\ UNCHANGED <<heap, handles_, wheap, issued, stale, double_free, uaf>>

\* client->Stop() is called when the client exists; whatever it throws is
\* swallowed.
dbento_live_blocking_stop(h) ==
    LET op == "dbento_live_blocking_stop"
        v == ValidateAndCast(h, LiveBlocking) IN
    IF v.ptr = NULL THEN Reject(op, v, 0)
    ELSE IF Dangling(h, v.ptr) THEN Undefined(op)
    ELSE /\ Returned([NoReturn EXCEPT
                        !.called = IF wheap[v.ptr].client # NULL
                                   THEN "Stop" ELSE ""])
         /\ UNCHANGED <<heap, handles_, wheap, issued, stale, double_free, uaf>>

\* dbento_live_blocking_destroy: deletes the wrapper and returns; the
\* header is neither unregistered nor freed.
dbento_live_blocking_destroy(h) ==
    LET op == "dbento_live_blocking_destroy"
        v == ValidateAndCast(h, LiveBlocking) IN
    IF v.ptr = NULL
    THEN /\ Returned([NoReturn EXCEPT !.err = v.err])
         /\ Retire(h, LiveBlocking)
         /\ UNCHANGED <<heap, handles_, wheap, double_free, uaf>>
    ELSE LET w == v.ptr IN
         /\ wheap' = [wheap EXCEPT ![w] = Deleted(wheap[w])]
         /\ double_free' = (double_free \/ Dangling(h, w))
         /\ uaf' = (uaf \/ Dangling(h, w))
         /\ Retire(h, LiveBlocking)
         /\ Return(op, 0)
         /\ UNCHANGED <<heap, handles_>>

\* ------------------------------------------------ symbol_map_wrapper.cpp
\* A Metadata handle comes from an entry point outside these files (the
\* file reader); it is created the way every other handle is.
MetadataHandleCreate ==
    \E w \in FreeWrappers, a \in FreeHeaders :
      LET c == CreateValidatedHandle(heap, handles_, a, Metadata, w) IN
      /\ wheap' = [wheap EXCEPT ![w] = NewWrapper(Metadata, a, "")]
      /\ heap' = c.heap
      /\ handles_' = c.reg
      /\ Issue(c.handle)
      /\ ReturnHandle("metadata_create", c.handle)
      /\ UNCHANGED <<double_free, uaf>>

\* dbento_metadata_create_symbol_map / ..._for_date: `type` is the kind of
\* map built from the metadata; make_ok: the map constructor did not throw.
SymbolMapCreate(op, type, metadata_handle, make_ok) ==
    LET v == ValidateAndCast(metadata_handle, Metadata) IN
    IF v.ptr = NULL THEN Reject(op, v, NULL)
    ELSE IF Dangling(metadata_handle, v.ptr) THEN Undefined(op)
    ELSE IF ~make_ok THEN Fail(op, NULL)
    ELSE \E w \in FreeWrappers, a \in FreeHeaders :
           LET c == CreateValidatedHandle(heap, handles_, a, type, w) IN
           /\ wheap' = [wheap EXCEPT ![w] = NewWrapper(type, a, "")]
           /\ heap' = c.heap
           /\ handles_' = c.reg
           /\ Issue(c.handle)
           /\ ReturnHandle(op, c.handle)
           /\ UNCHANGED <<double_free, uaf>>

dbento_metadata_create_symbol_map(metadata_handle, make_ok) ==
    SymbolMapCreate("dbento_metadata_create_symbol_map", TsSymbolMap,
                    metadata_handle, make_ok)

dbento_metadata_create_symbol_map_for_date(metadata_handle, make_ok) ==
    SymbolMapCreate("dbento_metadata_create_symbol_map_for_date", PitSymbolMap,
                    metadata_handle, make_ok)

\* dbento_ts_symbol_map_destroy / dbento_pit_symbol_map_destroy.
SymbolMapDestroy(op, type, h, m) ==
    LET v == ValidateAndCast(h, type) IN
    IF v.ptr = NULL
    THEN /\ Returned([NoReturn EXCEPT !.err = v.err])
         /\ Retire(h, type)
         /\ UNCHANGED <<heap, handles_, wheap, double_free, uaf>>
    ELSE LET w == v.ptr
             d == DestroyValidatedHandle(heap, handles_, h, m)
         IN /\ wheap' = [wheap EXCEPT ![w] = Deleted(wheap[w])]
            /\ heap' = d.heap
            /\ handles_' = d.reg
            /\ double_free' = (double_free \/ d.twice \/ Dangling(h, w))
            /\ uaf' = (uaf \/ Dangling(h, w))
            /\ Retire(h, type)
            /\ Return(op, 0)

dbento_ts_symbol_map_destroy(h, m) ==
    SymbolMapDestroy("dbento_ts_symbol_map_destroy", TsSymbolMap, h, m)

dbento_pit_symbol_map_destroy(h, m) ==
    SymbolMapDestroy("dbento_pit_symbol_map_destroy", PitSymbolMap, h, m)

\* ------------------------------------------------- the sequential API
\* Every entry point is one atomic step; the caller passes any handle value
\* (null, live, destroyed, never issued) and any argument.
\* Caller threads, and a thread that is in no entry point.
Threads == 1 .. MaxThreads
\*   pc      : position inside the entry point op ("idle": in none, "ub":
\*             the thread went through a pointer to a freed wrapper)
\*   h, w    : the handle argument and the wrapper pointer validation gave
\*   overlap : ghost, no destroy of h had returned when the call began
\*   used    : ghost, the client instance the last subscribe call went on with
\*   steps   : ghost, the phases of destroy the call has performed, in order
Idle ==
    [pc |-> "idle", op |-> "", h |-> NULL, w |-> NULL, overlap |-> FALSE,
     used |-> NULL, steps |-> <<>>]

\* Ghost counters of one stream: records handed to OnRecord, invocations of
\* the record and the metadata callback, invocations of the error callback
\* from the catch blocks of OnRecord (record_errors) and of the metadata
\* lambda (metadata_errors), the invocation on which the record callback
\* first raised (0: never), whether the metadata callback raised, and how the
\* last OnRecord ended.
NoDelivery ==
    [delivered |-> 0, record_calls |-> 0, metadata_calls |-> 0,
     record_errors |-> 0, metadata_errors |-> 0, raised_at |-> 0,
     metadata_raised |-> FALSE, result |-> "none"]

Init ==
    /\ heap = [a \in HAddr |-> NoHeader]
    /\ handles_ = {}
    /\ wheap = [w \in WAddr |-> NoWrapper]
    /\ issued = {}
    /\ stale = {}
    /\ double_free = FALSE
    /\ uaf = FALSE
    /\ ret = NoReturn
    /\ threads = [t \in Threads |-> Idle]
    /\ delivery = [w \in WAddr |-> NoDelivery]

\* Which callbacks a start call passes.  The sequential API is driven with
\* a record and an error callback, or with no record callback.
AllCallbacks ==
    [on_metadata |-> TRUE, on_record |-> TRUE, on_error |-> TRUE, user_data |-> 1]
StartArgs ==
    {[AllCallbacks EXCEPT !.on_metadata = FALSE],
     [AllCallbacks EXCEPT !.on_metadata = FALSE, !.on_record = FALSE]}

BlockOutcomes == {"stop", "continue", "throw", "other"}
\* The sequential API is driven with collaborator calls that return or
\* throw a standard exception.
SeqCalls == {"ok", "std::exception"}
MetadataBuffers == {"null", "small", "ok"}

\* A subscribe call: its arguments, and what the collaborator does during
\* it (build_ok: the client's constructor does not throw, call: what the
\* method called on the client does).  The sequential API is driven with
\* a well-formed call and calls during which
\* the collaborator throws.
OneSymbol == [isnull |-> FALSE, count |-> 1, elem |-> "ok"]
GoodSubscribe(ds) ==
    [dataset |-> ds, schema |-> "mbo", symbols |-> OneSymbol,
     build_ok |-> TRUE, call |-> "ok"]
SubscribeArgs ==
    {GoodSubscribe("GLBX"),
     [GoodSubscribe("GLBX") EXCEPT !.build_ok = FALSE],
     [GoodSubscribe("GLBX") EXCEPT !.call = "std::exception"]}

Next ==
    \/ \E h \in Handles, m \in FreedMagic : dbento_live_destroy(h, m)
    \/ \E h \in Handles : dbento_live_blocking_destroy(h)
    \/ \E k \in {NULLSTR, "key"} : dbento_live_create(k)
    \/ \E k \in {NULLSTR, "key"}, ds \in {NULLSTR, "GLBX"}, b \in BOOLEAN :
         dbento_live_create_ex(k, ds, b)
    \/ \E h \in Handles, a \in SubscribeArgs :
         \/ dbento_live_subscribe(h, a.dataset, a.schema, a.symbols,
                                 a.build_ok, a.call)
         \/ dbento_live_subscribe_with_snapshot(h, a.dataset, a.schema, a.symbols,
                                               a.build_ok, a.call)
         \/ dbento_live_subscribe_with_replay(h, a.dataset, a.schema, a.symbols,
                                             a.build_ok, a.call)
         \/ dbento_live_blocking_subscribe(h, a.dataset, a.schema, a.symbols,
                                          a.build_ok, a.call)
         \/ dbento_live_blocking_subscribe_with_replay(h, a.dataset, a.schema, a.symbols,
                                                      a.build_ok, a.call)
         \/ dbento_live_blocking_subscribe_with_snapshot(h, a.dataset, a.schema, a.symbols,
                                                        a.build_ok, a.call)
    \/ \E h \in Handles, cb \in StartArgs, c \in SeqCalls :
         \/ dbento_live_start(h, cb, c)
         \/ dbento_live_start_ex(h, cb, c)
    \/ \E h \in Handles : dbento_live_stop(h)
    \/ \E h \in Handles, o \in BlockOutcomes : dbento_live_stop_and_wait(h, o)
    \/ \E h \in Handles, c \in SeqCalls : dbento_live_reconnect(h, c)
    \/ \E h \in Handles, c \in SeqCalls : dbento_live_resubscribe(h, c)
    \/ \E k \in {"", "key"}, ds \in {NULLSTR, "GLBX"} :
         dbento_live_blocking_create_ex(k, ds)
    \/ \E h \in Handles, c \in SeqCalls : dbento_live_blocking_reconnect(h, c)
    \/ \E h \in Handles, c \in SeqCalls : dbento_live_blocking_resubscribe(h, c)
    \/ \E h \in Handles, mb \in MetadataBuffers, c \in SeqCalls :
         dbento_live_blocking_start(h, mb, c)
    \/ \E h \in Handles : dbento_live_blocking_stop(h)
    \/ MetadataHandleCreate
    \/ \E h \in Handles, b \in BOOLEAN : dbento_metadata_create_symbol_map(h, b)
    \/ \E h \in Handles, b \in BOOLEAN :
         dbento_metadata_create_symbol_map_for_date(h, b)
    \/ \E h \in Handles, m \in FreedMagic : dbento_ts_symbol_map_destroy(h, m)
    \/ \E h \in Handles, m \in FreedMagic : dbento_pit_symbol_map_destroy(h, m)

Spec == Init /\ [][Next]_vars

\* ------------------------------------------- ValidateAndCast as a function
\* ValidateAndCast applied to every header content, registry and argument:
\* the memory behind a handle is whatever the caller's pointer points at.
HeaderContents ==
    [alloc : {TRUE}, magic : FreedMagic, type : {LiveClient, LiveBlocking},
     wrapper_ptr : {NULL, 1}]

InitValidate ==
    /\ heap \in [HAddr -> HeaderContents]
    /\ handles_ \in SUBSET HAddr
    /\ wheap = [w \in WAddr |-> NoWrapper]
    /\ issued = {}
    /\ stale = {}
    /\ double_free = FALSE
    /\ uaf = FALSE
    /\ ret = NoReturn
    /\ threads = [t \in Threads |-> Idle]
    /\ delivery = [w \in WAddr |-> NoDelivery]

ValidateCall(handle, expected_type) ==
    LET v == ValidateAndCast(handle, expected_type) IN
    /\ Returned([NoReturn EXCEPT !.ptr = v.ptr, !.err = v.err])
    /\ UNCHANGED <<heap, handles_, wheap, issued, stale, double_free, uaf>>

NextValidate == \E h \in Handles, t \in HandleType : ValidateCall(h, t)

SpecValidate == InitValidate /\ [][NextValidate]_vars

\* ------------------------------------------- the processing thread
\* What a caller-supplied record or metadata callback does when it is
\* invoked, and what the error callback does.
CallbackOutcomes == {"returns", "std::exception", "other"}
ErrorCallbackOutcomes == {"returns", "raises"}

\* A step of the processing thread of wrapper w: the wrapper becomes wr, the
\* ghost counters become g.
ThreadStep(w, wr, g) ==
    /\ wheap' = [wheap EXCEPT ![w] = wr]
    /\ delivery' = [delivery EXCEPT ![w] = g]
    /\ UNCHANGED <<heap, handles_, issued, stale, double_free, uaf, ret, threads>>

\* The metadata lambda of dbento_live_start_ex.  A raising metadata callback
\* is reported through the error callback, if one is set; the running flag
\* is not touched.  An exception of the error callback leaves the lambda.
MetadataLambda(w, outcome, error_outcome) ==
    LET wr == wheap[w]
        g == delivery[w]
    IN
    /\ wr.alloc /\ wr.thread = "metadata"
    /\ IF ~wr.metadata_callback
       THEN ThreadStep(w, [wr EXCEPT !.thread = "wait"], g)
       ELSE LET g1 == [g EXCEPT !.metadata_calls = @ + 1] IN
            IF outcome = "returns"
            THEN ThreadStep(w, [wr EXCEPT !.thread = "wait"], g1)
            ELSE LET g2 == [g1 EXCEPT !.metadata_raised = TRUE] IN
                 IF ~wr.error_callback
                 THEN ThreadStep(w, [wr EXCEPT !.thread = "wait"], g2)
                 ELSE LET g3 == [g2 EXCEPT !.metadata_errors = @ + 1] IN
                      IF error_outcome = "raises"
                      THEN ThreadStep(w, [wr EXCEPT !.thread = "escaped"],
                                      [g3 EXCEPT !.result = "exception"])
                      ELSE ThreadStep(w, [wr EXCEPT !.thread = "wait"], g3)

\* OnRecord, entry: the next record arrives and the bridge takes
\* callback_mutex.
OnRecord_Lock(w) ==
    LET wr == wheap[w] IN
    /\ wr.alloc /\ wr.thread = "wait"
    /\ wr.callback_mutex = "free"
    /\ delivery[w].delivered < MaxRecords
    /\ ThreadStep(w, [wr EXCEPT !.thread = "check", !.callback_mutex = "thread"],
                  [delivery[w] EXCEPT !.delivered = @ + 1])

\* OnRecord leaves with `result`; the lock_guard releases the mutex.
OnRecord_Leave(wr, result) ==
    [wr EXCEPT !.callback_mutex = "free",
               !.thread = CASE result = "Continue" -> "wait"
                            [] result = "Stop" -> "exited"
                            [] OTHER -> "escaped"]

\* OnRecord without the test of the running flag.
OnRecord_Check_NoFlagTest(w) ==
    LET wr == wheap[w] IN
    /\ wr.alloc /\ wr.thread = "check"
    /\ ThreadStep(w, [wr EXCEPT !.thread = "invoke"], delivery[w])

\* OnRecord, the test of the running flag.
OnRecord_Check(w) ==
    LET wr == wheap[w] IN
    /\ wr.alloc /\ wr.thread = "check"
    /\ IF ~wr.is_running
       THEN ThreadStep(w, OnRecord_Leave(wr, "Stop"),
                       [delivery[w] EXCEPT !.result = "Stop"])
       ELSE ThreadStep(w, [wr EXCEPT !.thread = "invoke"], delivery[w])

\* OnRecord, the try block and its two catch blocks.  Either handler calls
\* the error callback if one is set, then clears the flag and returns Stop;
\* an exception of the error callback leaves the handler, and OnRecord,
\* before the flag is cleared.
OnRecord_Invoke(w, outcome, error_outcome) ==
    LET wr == wheap[w]
        g == delivery[w]
    IN
    /\ wr.alloc /\ wr.thread = "invoke"
    /\ IF ~wr.record_callback
       THEN ThreadStep(w, [wr EXCEPT !.thread = "return"], g)
       ELSE LET g1 == [g EXCEPT !.record_calls = @ + 1] IN
            IF outcome = "returns"
            THEN ThreadStep(w, [wr EXCEPT !.thread = "return"], g1)
            ELSE LET g2 == [g1 EXCEPT !.raised_at =
                                        IF @ = 0 THEN g1.record_calls ELSE @]
                     g3 == IF wr.error_callback
                           THEN [g2 EXCEPT !.record_errors = @ + 1] ELSE g2
                 IN IF wr.error_callback /\ error_outcome = "raises"
                    THEN ThreadStep(w, OnRecord_Leave(wr, "exception"),
                                    [g3 EXCEPT !.result = "exception"])
                    ELSE ThreadStep(w,
                           OnRecord_Leave([wr EXCEPT !.is_running = FALSE], "Stop"),
                           [g3 EXCEPT !.result = "Stop"])

\* OnRecord, the final load of the running flag.
OnRecord_Return(w) ==
    LET wr == wheap[w]
        result == IF wr.is_running THEN "Continue" ELSE "Stop"
    IN
    /\ wr.alloc /\ wr.thread = "return"
    /\ ThreadStep(w, OnRecord_Leave(wr, result),
                  [delivery[w] EXCEPT !.result = result])

\* One push-mode client with its client built: the state after
\* dbento_live_create("key") and a successful dbento_live_subscribe.
InitStream ==
    /\ heap = [[a \in HAddr |-> NoHeader] EXCEPT ![1] = HandleHeader(LiveClient, 1)]
    /\ handles_ = {1}
    /\ wheap = [[w \in WAddr |-> NoWrapper] EXCEPT ![1] =
                  [Build(NewWrapper(LiveClient, 1, "")) EXCEPT
                     !.once = "done", !.dataset = "GLBX"]]
    /\ issued = {1}
    /\ stale = {}
    /\ double_free = FALSE
    /\ uaf = FALSE
    /\ ret = NoReturn
    /\ threads = [t \in Threads |-> Idle]
    /\ delivery = [w \in WAddr |-> NoDelivery]

\* The callbacks a stream is started with: the record callback, with or
\* without a metadata and an error callback.
StreamStartArgs ==
    {[AllCallbacks EXCEPT !.on_metadata = m, !.on_error = e] :
       m \in BOOLEAN, e \in BOOLEAN}

\* The caller starts the stream of a client once, and may stop it at any
\* time; the processing thread runs beside the caller.
NextStream ==
    \/ \E h \in issued, cb \in StreamStartArgs, c \in SeqCalls :
         /\ wheap[heap[h].wrapper_ptr].thread = "none"
         /\ \/ dbento_live_start(h, cb, c)
            \/ dbento_live_start_ex(h, cb, c)
    \/ \E h \in issued : dbento_live_stop(h)
    \/ \E w \in WAddr, o \in CallbackOutcomes, e \in ErrorCallbackOutcomes :
         MetadataLambda(w, o, e)
    \/ \E w \in WAddr : OnRecord_Lock(w)
    \/ \E w \in WAddr : OnRecord_Check(w)
    \/ \E w \in WAddr, o \in CallbackOutcomes, e \in ErrorCallbackOutcomes :
         OnRecord_Invoke(w, o, e)
    \/ \E w \in WAddr : OnRecord_Return(w)

SpecStream == InitStream /\ [][NextStream]_vars

\* ------------------------------------------- entry points, step by step
\* Caller threads run entry points at the same time.  An entry point is a
\* sequence of steps, one per access to shared memory; between two steps of
\* a thread any other thread may run.
ConcOps ==
    {"dbento_live_subscribe", "dbento_live_stop", "dbento_live_destroy",
     "dbento_live_blocking_subscribe", "dbento_live_blocking_destroy"}

\* The handle type an entry point validates against, and the position
\* after a successful validation.
ExpectedType(op) ==
    IF op \in {"dbento_live_blocking_subscribe", "dbento_live_blocking_destroy"}
    THEN LiveBlocking ELSE LiveClient

\* dbento_live_destroy without phase 1.
FirstStep_SkipPhase1(op) ==
    CASE op = "dbento_live_subscribe" -> "store_dataset"
      [] op = "dbento_live_stop" -> "store_flag"
      [] op = "dbento_live_destroy" -> "phase2"
      [] op = "dbento_live_blocking_subscribe" -> "test_client"
      [] op = "dbento_live_blocking_destroy" -> "delete"

FirstStep(op) ==
    CASE op = "dbento_live_subscribe" -> "store_dataset"
      [] op = "dbento_live_stop" -> "store_flag"
      [] op = "dbento_live_destroy" -> "phase1"
      [] op = "dbento_live_blocking_subscribe" -> "test_client"
      [] op = "dbento_live_blocking_destroy" -> "delete"

IsDestroy(op) == op \in {"dbento_live_destroy", "dbento_live_blocking_destroy"}

\* Thread t moves to th; nothing else changes.
ThreadOnly(t, th) ==
    /\ threads' = [threads EXCEPT ![t] = th]
    /\ UNCHANGED <<heap, handles_, wheap, issued, stale, double_free, uaf, ret,
                   delivery>>

\* Thread t went through its wrapper pointer and the wrapper is gone.
ThreadUndefined(t) ==
    /\ threads' = [threads EXCEPT ![t].pc = "ub"]
    /\ uaf' = TRUE
    /\ UNCHANGED <<heap, handles_, wheap, issued, stale, double_free, ret,
                   delivery>>

\* Thread t leaves its wrapper as wr and moves to position pc.
ThreadWrite(t, wr, pc) ==
    /\ threads' = [threads EXCEPT ![t].pc = pc]
    /\ wheap' = [wheap EXCEPT ![threads[t].w] = wr]
    /\ UNCHANGED <<heap, handles_, issued, stale, double_free, uaf, ret, delivery>>

\* Thread t has performed the phase `name` of destroy and is at pc.
Did(t, name, pc) ==
    [threads[t] EXCEPT !.pc = pc, !.steps = Append(@, name)]

\* The wrapper thread t holds a pointer to, and whether it is gone.
Wrapper(t) == wheap[threads[t].w]
Gone(t) == Dangling(threads[t].h, threads[t].w)

\* Ghost bookkeeping when a destroy entry point returns.
RetireOnReturn(op, h) ==
    IF IsDestroy(op) /\ h \in issued
    THEN issued' = issued \ {h} /\ stale' = stale \cup {h}
    ELSE UNCHANGED <<issued, stale>>

\* A thread calls entry point op on handle h.
Enter(t, op, h) ==
    /\ threads[t].pc = "idle"
    /\ ThreadOnly(t, [pc |-> "validate", op |-> op, h |-> h, w |-> NULL,
                      overlap |-> h \notin stale, used |-> NULL,
                      steps |-> <<>>])

\* ValidateAndCast at the top of every entry point.  On failure the entry
\* point returns at once.
Validate(t) ==
    LET th == threads[t]
        v == ValidateAndCast(th.h, ExpectedType(th.op))
    IN
    /\ th.pc = "validate"
    /\ IF v.ptr = NULL
       THEN /\ threads' = [threads EXCEPT ![t].pc = "idle"]
            /\ IF v.err = "WrongType" THEN UNCHANGED <<issued, stale>>
               ELSE RetireOnReturn(th.op, th.h)
            /\ UNCHANGED <<heap, handles_, wheap, double_free, uaf, ret, delivery>>
       ELSE ThreadOnly(t, [th EXCEPT !.pc = FirstStep(th.op), !.w = v.ptr])

\* dbento_live_subscribe with well-formed arguments: wrapper->dataset = dataset.
Subscribe_StoreDataset(t) ==
    /\ threads[t].pc = "store_dataset"
    /\ IF Gone(t) THEN ThreadUndefined(t)
       ELSE ThreadWrite(t, [Wrapper(t) EXCEPT !.dataset = "GLBX"], "call_once")

\* LiveClientWrapper::EnsureClientCreated, entering std::call_once: the
\* first thread runs the callable, a thread arriving while it runs waits,
\* a thread arriving after it returned goes on.
CallOnce_Enter(t) ==
    /\ threads[t].pc = "call_once"
    /\ Gone(t) \/ Wrapper(t).once # "active"
    /\ IF Gone(t) THEN ThreadUndefined(t)
       ELSE IF Wrapper(t).once = "done"
       THEN ThreadOnly(t, [threads[t] EXCEPT !.pc = "call"])
       ELSE ThreadWrite(t, [Wrapper(t) EXCEPT !.once = "active"], "build_threaded")

\* The callable of call_once: build the client and assign it.  When
\* BuildThreaded throws, call_once resets the flag and the exception ends
\* the entry point.
CallOnce_Build(t, build_ok) ==
    /\ threads[t].pc = "build_threaded"
    /\ IF Gone(t) THEN ThreadUndefined(t)
       ELSE IF build_ok
       THEN ThreadWrite(t, [Build(Wrapper(t)) EXCEPT !.once = "done"], "call")
       ELSE ThreadWrite(t, [Wrapper(t) EXCEPT !.once = "idle"], "idle")

\* LiveBlockingWrapper::EnsureClientCreated, the test `if (!client)`.
EnsureClientCreated_Test(t) ==
    /\ threads[t].pc = "test_client"
    /\ IF Gone(t) THEN ThreadUndefined(t)
       ELSE ThreadOnly(t, [threads[t] EXCEPT !.pc =
                             IF Wrapper(t).client # NULL THEN "call"
                             ELSE "build_blocking"])

\* LiveBlockingWrapper::EnsureClientCreated, the body of the if: build a
\* client and assign it, replacing whatever the pointer held.
EnsureClientCreated_Build(t, build_ok) ==
    /\ threads[t].pc = "build_blocking"
    /\ IF Gone(t) THEN ThreadUndefined(t)
       ELSE IF build_ok THEN ThreadWrite(t, Build(Wrapper(t)), "call")
       ELSE ThreadOnly(t, [threads[t] EXCEPT !.pc = "idle"])

\* wrapper->client->Subscribe(...), and the entry point returns.
Subscribe_Call(t) ==
    /\ threads[t].pc = "call"
    /\ IF Gone(t) THEN ThreadUndefined(t)
       ELSE ThreadOnly(t, [threads[t] EXCEPT !.pc = "idle",
                                            !.used = Wrapper(t).client])

\* dbento_live_stop: is_running.store(false).
Stop_StoreFlag(t) ==
    /\ threads[t].pc = "store_flag"
    /\ IF Gone(t) THEN ThreadUndefined(t)
       ELSE ThreadWrite(t, [Wrapper(t) EXCEPT !.is_running = FALSE], "idle")

\* dbento_live_destroy, phase 1: is_running.store(false).
Destroy_Phase1(t) ==
    /\ threads[t].pc = "phase1"
    /\ IF Gone(t) THEN ThreadUndefined(t)
       ELSE /\ threads' = [threads EXCEPT ![t] = Did(t, "flag", "phase2")]
            /\ wheap' = [wheap EXCEPT ![threads[t].w].is_running = FALSE]
            /\ UNCHANGED <<heap, handles_, issued, stale, double_free, uaf, ret,
                           delivery>>

\* dbento_live_destroy, phase 2: if (wrapper->client) BlockForStop(5 s).
\* The wait ends when the processing thread has ended or after 5 seconds,
\* whichever comes first, and what it returned or threw is ignored.
Destroy_Phase2(t) ==
    /\ threads[t].pc = "phase2"
    /\ IF Gone(t) THEN ThreadUndefined(t)
       ELSE ThreadOnly(t, Did(t, IF Wrapper(t).client # NULL THEN "join"
                                 ELSE "no_client", "phase3"))

\* dbento_live_destroy, phase 3: take and release callback_mutex.
Destroy_Phase3(t) ==
    /\ threads[t].pc = "phase3"
    /\ Gone(t) \/ Wrapper(t).callback_mutex = "free"
    /\ IF Gone(t) THEN ThreadUndefined(t)
       ELSE ThreadOnly(t, Did(t, "lock", "phase4"))

\* delete wrapper (phase 4 of dbento_live_destroy, the whole of
\* dbento_live_blocking_destroy, which returns after it).
DeleteWrapper(t, pc) ==
    IF Gone(t)
    THEN /\ threads' = [threads EXCEPT ![t].pc = "ub"]
         /\ uaf' = TRUE
         /\ double_free' = TRUE
         /\ UNCHANGED <<heap, handles_, wheap, issued, stale, ret, delivery>>
    ELSE /\ threads' = [threads EXCEPT ![t] = Did(t, "delete", pc)]
         /\ wheap' = [wheap EXCEPT ![threads[t].w] = Deleted(Wrapper(t))]
         /\ IF pc = "idle" THEN RetireOnReturn(threads[t].op, threads[t].h)
            ELSE UNCHANGED <<issued, stale>>
         /\ UNCHANGED <<heap, handles_, double_free, uaf, ret, delivery>>

Destroy_Phase4(t) ==
    /\ threads[t].pc = "phase4"
    /\ DeleteWrapper(t, "destroy_handle")

BlockingDestroy_Delete(t) ==
    /\ threads[t].pc = "delete"
    /\ DeleteWrapper(t, "idle")

\* dbento_live_destroy, last statement: DestroyValidatedHandle(handle).
Destroy_Handle(t, m) ==
    LET th == threads[t]
        d == DestroyValidatedHandle(heap, handles_, th.h, m)
    IN
    /\ th.pc = "destroy_handle"
    /\ threads' = [threads EXCEPT ![t] = Did(t, "unregister", "idle")]
    /\ heap' = d.heap
    /\ handles_' = d.reg
    /\ double_free' = (double_free \/ d.twice)
    /\ RetireOnReturn(th.op, th.h)
    /\ UNCHANGED <<wheap, uaf, ret, delivery>>

\* One push-mode client (handle 1) and one pull-mode client (handle 2),
\* neither with a client built: the state after dbento_live_create("key")
\* and dbento_live_blocking_create_ex("key", "GLBX", ...).
InitConc ==
    /\ heap = [a \in HAddr |-> IF a = 1 THEN HandleHeader(LiveClient, 1)
                                ELSE IF a = 2 THEN HandleHeader(LiveBlocking, 2)
                                ELSE NoHeader]
    /\ handles_ = {1, 2}
    /\ wheap = [w \in WAddr |-> IF w = 1 THEN NewWrapper(LiveClient, 1, "")
                                 ELSE IF w = 2 THEN NewWrapper(LiveBlocking, 2, "GLBX")
                                 ELSE NoWrapper]
    /\ issued = {1, 2}
    /\ stale = {}
    /\ double_free = FALSE
    /\ uaf = FALSE
    /\ ret = [NoReturn EXCEPT !.ptr = 2]
    /\ threads = [t \in Threads |-> Idle]
    /\ delivery = [w \in WAddr |-> NoDelivery]

NextConc ==
    \/ \E t \in Threads, op \in ConcOps, h \in HAddr : Enter(t, op, h)
    \/ \E t \in Threads : Validate(t)
    \/ \E t \in Threads : Subscribe_StoreDataset(t)
    \/ \E t \in Threads : CallOnce_Enter(t)
    \/ \E t \in Threads, b \in BOOLEAN : CallOnce_Build(t, b)
    \/ \E t \in Threads : EnsureClientCreated_Test(t)
    \/ \E t \in Threads, b \in BOOLEAN : EnsureClientCreated_Build(t, b)
    \/ \E t \in Threads : Subscribe_Call(t)
    \/ \E t \in Threads : Stop_StoreFlag(t)
    \/ \E t \in Threads : Destroy_Phase1(t)
    \/ \E t \in Threads : Destroy_Phase2(t)
    \/ \E t \in Threads : Destroy_Phase3(t)
    \/ \E t \in Threads : Destroy_Phase4(t)
    \/ \E t \in Threads, m \in FreedMagic : Destroy_Handle(t, m)
    \/ \E t \in Threads : BlockingDestroy_Delete(t)

SpecConc == InitConc /\ [][NextConc]_vars

\* ------------------------------------- destroy beside the processing thread
\* Positions at which the processing thread has not ended.
LivePositions == {"metadata", "wait", "check", "invoke", "return"}

\* The processing thread of a freed wrapper takes its next step.  The
\* metadata lambda and OnRecord go through the wrapper pointer the lambdas
\* captured: the step reads or writes freed memory.
Thread_OnFreed(w) ==
    /\ ~wheap[w].alloc
    /\ wheap[w].thread \in LivePositions
    /\ wheap[w].thread = "wait" => delivery[w].delivered < MaxRecords
    /\ wheap' = [wheap EXCEPT ![w].thread = "ub"]
    /\ uaf' = TRUE
    /\ UNCHANGED <<heap, handles_, issued, stale, double_free, ret, threads,
                   delivery>>

\* ~LiveClientWrapper leaves the thread to the client's destructor, which
\* runs when the wrapper is deleted: a thread that is between two records
\* may be ended by it.
Thread_Ended(w) ==
    /\ ~wheap[w].alloc
    /\ wheap[w].thread \in {"metadata", "wait"}
    /\ wheap' = [wheap EXCEPT ![w].thread = "exited"]
    /\ UNCHANGED <<heap, handles_, issued, stale, double_free, uaf, ret, threads,
                   delivery>>

\* A started or unstarted push-mode stream, and caller threads that destroy
\* the client step by step while the processing thread runs.
NextTeardown ==
    \/ NextStream
    \/ \E t \in Threads, h \in HAddr : Enter(t, "dbento_live_destroy", h)
    \/ \E t \in Threads : Validate(t)
    \/ \E t \in Threads : Destroy_Phase1(t)
    \/ \E t \in Threads : Destroy_Phase2(t)
    \/ \E t \in Threads : Destroy_Phase3(t)
    \/ \E t \in Threads : Destroy_Phase4(t)
    \/ \E t \in Threads, m \in FreedMagic : Destroy_Handle(t, m)
    \/ \E w \in WAddr : Thread_OnFreed(w)
    \/ \E w \in WAddr : Thread_Ended(w)

SpecTeardown == InitStream /\ [][NextTeardown]_vars

\* ---------------------------------------------------------------- claims
AnyDestroy(h) ==
    \/ \E m \in FreedMagic : dbento_live_destroy(h, m)
    \/ \E m \in FreedMagic : dbento_ts_symbol_map_destroy(h, m)
    \/ \E m \in FreedMagic : dbento_pit_symbol_map_destroy(h, m)
    \/ dbento_live_blocking_destroy(h)

\* C1 (as claimed): once a handle's destroy entry point has been called,
\* ValidateAndCast on that handle reports NotRegistered whatever type is
\* asked for.
C1_DestroyedIsNotRegistered ==
    \A h \in stale, t \in HandleType :
        ValidateAndCast(h, t).err = "NotRegistered"

\* C2 (as claimed): a destroy call on a handle that was already destroyed
\* changes neither the registry nor the header heap nor the wrapper heap,
\* frees nothing a second time, and leaves the handle reported as
\* NotRegistered.
C2_DestroyIdempotent ==
    [][\A h \in stale :
         AnyDestroy(h) =>
           /\ UNCHANGED <<heap, handles_, wheap, double_free>>
           /\ \A t \in HandleType :
                ValidateAndCastIn(heap', handles_', h, t).err = "NotRegistered"]_vars

\* ------------------------------------------------ calls on two clients
\* One push-mode and one pull-mode client, neither destroyed: every entry
\* point that takes a handle and frees nothing is called on them with
\* every shape of symbol array, every callback combination and every
\* behaviour of the underlying client.
CallSymbols ==
    {[isnull |-> n, count |-> c, elem |-> "ok"] :
       n \in BOOLEAN, c \in {0, 1, MAX_SYMBOLS, MAX_SYMBOLS + 1}}
    \cup {[OneSymbol EXCEPT !.elem = e] : e \in {"null", "long"}}

\* Well-formed dataset and schema with every symbol array and every
\* behaviour of the underlying client, and well-formed symbols with another
\* dataset, an empty dataset and an unknown schema.
CallArgs ==
    {[dataset |-> "GLBX", schema |-> "mbo", symbols |-> sy, build_ok |-> b,
      call |-> c] : sy \in CallSymbols, b \in BOOLEAN, c \in CallOutcomes}
    \cup {GoodSubscribe("XNAS"),
          [GoodSubscribe("GLBX") EXCEPT !.dataset = ""],
          [GoodSubscribe("GLBX") EXCEPT !.schema = "bogus"]}

Timeouts == {-1, 0, 50}

NextCalls ==
    \E h \in issued :
      \/ \E a \in CallArgs :
           \/ dbento_live_subscribe(h, a.dataset, a.schema, a.symbols,
                                   a.build_ok, a.call)
           \/ dbento_live_subscribe_with_snapshot(h, a.dataset, a.schema,
                                                 a.symbols, a.build_ok, a.call)
           \/ dbento_live_subscribe_with_replay(h, a.dataset, a.schema,
                                               a.symbols, a.build_ok, a.call)
           \/ dbento_live_blocking_subscribe(h, a.dataset, a.schema, a.symbols,
                                            a.build_ok, a.call)
           \/ dbento_live_blocking_subscribe_with_replay(h, a.dataset, a.schema,
                                                        a.symbols, a.build_ok,
                                                        a.call)
           \/ dbento_live_blocking_subscribe_with_snapshot(h, a.dataset, a.schema,
                                                          a.symbols, a.build_ok,
                                                          a.call)
      \/ \E cb \in StreamStartArgs \cup StartArgs, c \in CallOutcomes :
           \/ dbento_live_start(h, cb, c)
           \/ dbento_live_start_ex(h, cb, c)
      \/ dbento_live_stop(h)
      \/ \E o \in BlockOutcomes : dbento_live_stop_and_wait(h, o)
      \/ \E c \in CallOutcomes :
           \/ dbento_live_reconnect(h, c)
           \/ dbento_live_resubscribe(h, c)
           \/ dbento_live_blocking_reconnect(h, c)
           \/ dbento_live_blocking_resubscribe(h, c)
      \/ \E mb \in MetadataBuffers, c \in CallOutcomes :
           dbento_live_blocking_start(h, mb, c)
      \/ \E outputs \in BOOLEAN, fits \in BOOLEAN, timeout_ms \in Timeouts,
            next \in NextRecordOutcomes :
           dbento_live_blocking_next_record(h, outputs, fits, timeout_ms, next)
      \/ dbento_live_blocking_stop(h)

SpecCalls == InitConc /\ [][NextCalls]_vars

\* Every push-mode / pull-mode entry point that takes a handle, called
\* with well-formed arguments.
LiveEntryPoint(h) ==
    \/ dbento_live_subscribe(h, "GLBX", "mbo", OneSymbol, TRUE, "ok")
    \/ dbento_live_subscribe_with_snapshot(h, "GLBX", "mbo", OneSymbol, TRUE, "ok")
    \/ dbento_live_subscribe_with_replay(h, "GLBX", "mbo", OneSymbol, TRUE, "ok")
    \/ dbento_live_start(h, AllCallbacks, "ok")
    \/ dbento_live_start_ex(h, AllCallbacks, "ok")
    \/ dbento_live_stop(h)
    \/ dbento_live_stop_and_wait(h, "stop")
    \/ dbento_live_destroy(h, TOMBSTONE)
    \/ dbento_live_reconnect(h, "ok")
    \/ dbento_live_resubscribe(h, "ok")

BlockingEntryPoint(h) ==
    \/ dbento_live_blocking_subscribe(h, "GLBX", "mbo", OneSymbol, TRUE, "ok")
    \/ dbento_live_blocking_subscribe_with_replay(h, "GLBX", "mbo", OneSymbol, TRUE, "ok")
    \/ dbento_live_blocking_subscribe_with_snapshot(h, "GLBX", "mbo", OneSymbol, TRUE, "ok")
    \/ dbento_live_blocking_start(h, "ok", "ok")
    \/ dbento_live_blocking_reconnect(h, "ok")
    \/ dbento_live_blocking_resubscribe(h, "ok")
    \/ dbento_live_blocking_stop(h)
    \/ dbento_live_blocking_destroy(h)

\* C3: a live handle validated against a type other than its own yields
\* WrongType and no pointer; a push-mode entry point given a live handle of
\* another kind (and a pull-mode entry point given a live handle that is
\* not LiveBlocking) ends in WrongType and leaves every header, the
\* registry and every wrapper as they were.
C3_WrongTypeRejected ==
    /\ [](\A h \in issued : \A u \in HandleType \ {heap[h].type} :
            ValidateAndCast(h, u) = [ptr |-> NULL, err |-> "WrongType"])
    /\ [][\A h \in issued :
            /\ (heap[h].type # LiveClient /\ LiveEntryPoint(h)) =>
                 /\ ret'.err = "WrongType" /\ ret'.ptr = NULL
                 /\ UNCHANGED <<heap, handles_, wheap, issued>>
            /\ (heap[h].type # LiveBlocking /\ BlockingEntryPoint(h)) =>
                 /\ ret'.err = "WrongType" /\ ret'.ptr = NULL
                 /\ UNCHANGED <<heap, handles_, wheap, issued>>
       ]_vars

C3_Witness ==
    /\ ret.err = "WrongType"
    /\ ret.status = -1
    /\ \E h \in issued : heap[h].type = LiveBlocking
    /\ \E h \in issued : heap[h].type = LiveClient

\* C4: ValidateAndCast reports the error of the first failing check in the
\* order null handle, magic, registry, type tag, wrapper pointer, and
\* Success with the wrapper pointer exactly when none fails.
CheckPasses(i, h, t) ==
    CASE i = 1 -> h # NULL
      [] i = 2 -> h # NULL /\ heap[h].magic = HANDLE_MAGIC
      [] i = 3 -> h \in handles_
      [] i = 4 -> h # NULL /\ heap[h].type = t
      [] i = 5 -> h # NULL /\ heap[h].wrapper_ptr # NULL

CheckError ==
    <<"NullHandle", "InvalidMagic", "NotRegistered", "WrongType", "NullWrapperPtr">>

FirstFailing(h, t) ==
    LET failing == {i \in 1..5 : ~CheckPasses(i, h, t)} IN
    IF failing = {} THEN 0
    ELSE CHOOSE i \in failing : \A j \in failing : i <= j

C4_FirstFailingCheck ==
    \A h \in Handles, t \in HandleType :
        LET v == ValidateAndCast(h, t)
            f == FirstFailing(h, t)
        IN IF f = 0
           THEN v = [ptr |-> heap[h].wrapper_ptr, err |-> "Success"]
           ELSE v = [ptr |-> NULL, err |-> CheckError[f]]

C4_Witness ==
    /\ ret.err = "NullWrapperPtr"
    /\ \E h \in HAddr : heap[h].magic # HANDLE_MAGIC /\ h \notin handles_

\* C5 (as claimed): the registry holds exactly the handles that were
\* created and whose destroy has not been called.
C5_RegistryIsLiveSet == handles_ = issued

\* C8: a wrapper never has a second client constructed for it, and while
\* the wrapper object lives a client pointer once set keeps its value.
C8_ClientBuiltOnce ==
    /\ [](\A w \in WAddr : wheap[w].built <= 1)
    /\ [][\A w \in WAddr :
            (wheap[w].alloc /\ wheap'[w].alloc /\ wheap[w].client # NULL)
              => wheap'[w].client = wheap[w].client]_vars

C8_Witness ==
    /\ \E w \in WAddr :
         /\ wheap[w].kind = LiveBlocking /\ wheap[w].client = 1
         /\ ret.status = 0 /\ ret.err = "Success" /\ ret.ptr = NULL
    /\ \E w \in WAddr :
         /\ wheap[w].kind = LiveClient /\ wheap[w].client = 1
         /\ wheap[w].dataset = "GLBX"

\* C9 (as claimed): once the record callback of a push-mode stream has
\* raised on its k-th invocation, the running flag is false, the error
\* callback (if set) has been invoked exactly once for that failure, OnRecord
\* returned Stop, and the record callback has been invoked k times in all.
C9_RecordCallbackRaiseStops ==
    \A w \in WAddr :
      LET g == delivery[w] IN
      g.raised_at > 0 =>
        /\ ~wheap[w].is_running
        /\ g.record_errors = (IF wheap[w].error_callback THEN 1 ELSE 0)
        /\ g.result = "Stop"
        /\ g.record_calls = g.raised_at

\* C10 (as claimed): once the record callback or the metadata callback has
\* raised on the processing thread, the error callback (if set) has been
\* invoked exactly once for that failure and the running flag is false.
C10_CallbackRaiseReportedAndStopped ==
    \A w \in WAddr :
      LET g == delivery[w]
          once == IF wheap[w].error_callback THEN 1 ELSE 0
      IN /\ g.raised_at > 0 => (g.record_errors = once /\ ~wheap[w].is_running)
         /\ g.metadata_raised => (g.metadata_errors = once /\ ~wheap[w].is_running)

\* C6 (as claimed): an operation that runs beside a destroy of its handle
\* (no destroy of the handle had returned when the operation was called)
\* never goes through its wrapper pointer after the wrapper has been freed.
C6_NoAccessAfterFree ==
    \A t \in Threads : ~(threads[t].pc = "ub" /\ threads[t].overlap)

\* C7 (as claimed): however the subscribe calls of several threads on one
\* wrapper interleave, push-mode or pull-mode, one client is built for the
\* wrapper and every call goes on with that same instance.
C7_OneClientBuilt ==
    /\ \A w \in WAddr : wheap[w].built <= 1
    /\ \A t1 \in Threads, t2 \in Threads :
         (/\ threads[t1].w = threads[t2].w
          /\ threads[t1].used # NULL
          /\ threads[t2].used # NULL) => threads[t1].used = threads[t2].used

\* C11 (as claimed): a wrapper is freed only when its client's processing
\* thread, if one was started, has ended: no freed wrapper has a processing
\* thread that is still running.
C11_FreedOnlyAfterThreadExit ==
    \A w \in WAddr : ~wheap[w].alloc => wheap[w].thread \notin LivePositions

\* C12 (as claimed): the processing thread never takes a step of the
\* metadata lambda or of OnRecord on a wrapper that destroy has freed.
C12_NoDeliveryOnFreedWrapper ==
    \A w \in WAddr : wheap[w].thread # "ub"

\* C13: a dbento_live_destroy whose handle validated performs, in this
\* order and with none left out: clear the running flag; the bounded join,
\* exactly when a client exists; take and release the callback lock; free
\* the wrapper; unregister and free the header.  Each phase has its effect
\* when it is performed.
DestroyPhases(joined) ==
    <<"flag", IF joined THEN "join" ELSE "no_client", "lock", "delete",
      "unregister">>

IsPrefix(p, q) == Len(p) <= Len(q) /\ \A i \in 1 .. Len(p) : p[i] = q[i]

Performs(t, name) ==
    /\ Len(threads'[t].steps) = Len(threads[t].steps) + 1
    /\ threads'[t].steps[Len(threads'[t].steps)] = name

C14_StopChangesOnlyRunningFlag ==
    [][\A h \in issued :
         (heap[h].type = LiveClient /\ dbento_live_stop(h)) =>
           LET w == heap[h].wrapper_ptr IN
           /\ wheap' = [wheap EXCEPT ![w].is_running = FALSE]
           /\ UNCHANGED <<heap, handles_, issued, stale>>
           /\ IsRegistered(handles_', h)
           /\ ValidateAndCastIn(heap', handles_', h, LiveClient)
                = [ptr |-> w, err |-> "Success"]
      ]_vars

\* A started push-mode client after stop: client and callbacks are there,
\* the flag is down.
C14_Witness ==
    /\ ret = NoReturn
    /\ \E h \in issued :
         LET wr == wheap[heap[h].wrapper_ptr] IN
         /\ heap[h].type = LiveClient
         /\ wr.client # NULL
         /\ wr.record_callback /\ wr.error_callback
         /\ wr.user_data # NULL
         /\ wr.thread # "none"
         /\ ~wr.is_running

\* The three push-mode / pull-mode subscribe entry points called with the
\* arguments and collaborator behaviour of a.
PushSubscribe(h, a) ==
    \/ dbento_live_subscribe(h, a.dataset, a.schema, a.symbols, a.build_ok, a.call)
    \/ dbento_live_subscribe_with_snapshot(h, a.dataset, a.schema, a.symbols,
                                          a.build_ok, a.call)
    \/ dbento_live_subscribe_with_replay(h, a.dataset, a.schema, a.symbols,
                                        a.build_ok, a.call)

PullSubscribe(h, a) ==
    \/ dbento_live_blocking_subscribe(h, a.dataset, a.schema, a.symbols,
                                     a.build_ok, a.call)
    \/ dbento_live_blocking_subscribe_with_replay(h, a.dataset, a.schema,
                                                 a.symbols, a.build_ok, a.call)
    \/ dbento_live_blocking_subscribe_with_snapshot(h, a.dataset, a.schema,
                                                   a.symbols, a.build_ok, a.call)

\* The call returned an error status and called no method of the client.
FailedWithoutCall(r) == r.status < 0 /\ r.called = "" /\ ~r.escaped

\* C15: each of the six subscribe entry points, called with a null symbol
\* array or with symbol_count = 0, returns an error status and calls neither
\* Subscribe nor SubscribeWithSnapshot on the underlying client.
C15_NullOrEmptySymbolsRejected ==
    [][\A h \in issued, a \in CallArgs :
         ((a.symbols.isnull \/ a.symbols.count = 0)
            /\ (PushSubscribe(h, a) \/ PullSubscribe(h, a)))
         => FailedWithoutCall(ret')
      ]_vars

\* C16: each of the six subscribe entry points, called on a handle of its
\* kind with MAX_SYMBOLS well-formed symbols (and a collaborator that
\* builds and subscribes), returns 0 after calling the client; called with
\* MAX_SYMBOLS + 1 symbols it returns an error status and calls nothing.
C16_SymbolCountLimit ==
    [][\A h \in issued, a \in CallArgs :
         /\ (/\ a = [GoodSubscribe("GLBX") EXCEPT !.symbols.count = MAX_SYMBOLS]
             /\ \/ heap[h].type = LiveClient /\ PushSubscribe(h, a)
                \/ heap[h].type = LiveBlocking /\ PullSubscribe(h, a))
            => ret'.status = 0 /\ ret'.called # "" /\ ~ret'.escaped
         /\ (/\ a.symbols.count = MAX_SYMBOLS + 1
             /\ (PushSubscribe(h, a) \/ PullSubscribe(h, a)))
            => FailedWithoutCall(ret')
      ]_vars

\* dbento_live_blocking_next_record called with timeout_ms, whatever its
\* other arguments and whatever NextRecord does.
NextRecordCall(h, timeout_ms) ==
    \E outputs \in BOOLEAN, fits \in BOOLEAN, next \in NextRecordOutcomes :
      dbento_live_blocking_next_record(h, outputs, fits, timeout_ms, next)

\* C17: every call of dbento_live_blocking_next_record returns a status;
\* the status is 0, 1 or negative; the outputs are written exactly when it
\* is 0; and a call with a negative timeout_ms never returns 1.
C17_NextRecordThreeOutcomes ==
    [][\A h \in issued, timeout_ms \in Timeouts :
         NextRecordCall(h, timeout_ms) =>
           /\ ~ret'.escaped
           /\ ret'.status \in {0, 1} \/ ret'.status < 0
           /\ ret'.written <=> ret'.status = 0
           /\ timeout_ms < 0 => ret'.status # 1
      ]_vars

\* A pull-mode handle whose client exists, polled with a non-negative
\* timeout while the source is silent: NextRecord returns a null pointer.
SilentPoll(h, outputs) ==
    /\ heap[h].type = LiveBlocking
    /\ wheap[heap[h].wrapper_ptr].client # NULL
    /\ \E fits \in BOOLEAN, timeout_ms \in Timeouts :
         /\ timeout_ms >= 0
         /\ dbento_live_blocking_next_record(h, outputs, fits, timeout_ms,
                                             "timeout")

\* C18 as stated: every such poll returns 1, whatever the output
\* parameters.
C18_SilentSourceTimesOut ==
    [][\A h \in issued, outputs \in BOOLEAN :
         SilentPoll(h, outputs) => ret'.status = 1
      ]_vars

\* C18: dbento_live_blocking_next_record with a non-negative timeout and
\* non-null record_buffer, out_record_length and out_record_type, on a
\* client whose source delivers nothing within the timeout, returns 1 and
\* writes no output.
C18_SilentSourceTimesOut_ValidOutputs ==
    [][\A h \in issued :
         SilentPoll(h, TRUE) =>
           ret'.status = 1 /\ ~ret'.written /\ ~ret'.escaped
      ]_vars

C18_Witness ==
    /\ ret.status = 1
    /\ ret.called = "NextRecord"
    /\ ~ret.written

\* Reconnect or resubscribe of either wrapper, on a handle of its kind.
ReconnectOrResubscribe(h, call) ==
    \/ /\ heap[h].type = LiveClient
       /\ dbento_live_reconnect(h, call) \/ dbento_live_resubscribe(h, call)
    \/ /\ heap[h].type = LiveBlocking
       /\ \/ dbento_live_blocking_reconnect(h, call)
          \/ dbento_live_blocking_resubscribe(h, call)

\* C19: reconnect and resubscribe of both wrappers, on a valid handle
\* whose client has not been built, return an error status with the
\* message "Client not initialized", call no method of a client and leave
\* every wrapper (no client built) as it was.
C19_NotInitializedFails ==
    [][\A h \in issued, call \in CallOutcomes :
         (wheap[heap[h].wrapper_ptr].client = NULL
            /\ ReconnectOrResubscribe(h, call))
         => /\ ret'.status < 0
            /\ ret'.msg = "Client not initialized"
            /\ ret'.called = ""
            /\ ~ret'.escaped
            /\ UNCHANGED <<heap, handles_, wheap>>
      ]_vars

\* The push-mode reconnect / resubscribe refused (only they return -2 with
\* this message) on a client that is still not built.
C19_Witness ==
    /\ ret.status = -2
    /\ ret.msg = "Client not initialized"
    /\ \E h \in issued : /\ heap[h].type = LiveClient
                         /\ wheap[heap[h].wrapper_ptr].client = NULL
                         /\ wheap[heap[h].wrapper_ptr].built = 0

\* C20: no call of an entry point ends with an exception leaving it.
C20_NoExceptionEscapes == ~ret.escaped

\* What a returned call reports: its handle validation failed, or a method
\* of the underlying client threw a standard exception.
ValidationFailure(r) == r.err # "Success"
TransportFailure(r) == r.called # "" /\ r.msg = "e.what()"

\* The status-returning entry points dbento_live_subscribe,
\* dbento_live_stop_and_wait and dbento_live_blocking_start, called on h
\* with any arguments.
StatusEntryPoints ==
    {"dbento_live_subscribe", "dbento_live_stop_and_wait",
     "dbento_live_blocking_start"}

StatusCall(op, h) ==
    CASE op = "dbento_live_subscribe" ->
           \E a \in CallArgs :
             dbento_live_subscribe(h, a.dataset, a.schema, a.symbols,
                                   a.build_ok, a.call)
      [] op = "dbento_live_stop_and_wait" ->
           \E o \in BlockOutcomes : dbento_live_stop_and_wait(h, o)
      [] op = "dbento_live_blocking_start" ->
           \E mb \in MetadataBuffers, c \in CallOutcomes :
             dbento_live_blocking_start(h, mb, c)

\* C21: no status-returning entry point returns 0 or a positive status for
\* a failed validation or a failed call of the client, and none returns
\* the same negative status for a failed validation as for a failed call of
\* the client (two error kinds never share a status of one entry point).
C21_DistinctStatusPerErrorKind ==
    \A op \in StatusEntryPoints :
      /\ \A h \in issued :
           ~ENABLED (/\ StatusCall(op, h)
                     /\ ret'.status >= 0
                     /\ ValidationFailure(ret') \/ TransportFailure(ret'))
      /\ \A s \in {-3, -2, -1} :
           ~(/\ \E h \in issued :
                  ENABLED (/\ StatusCall(op, h)
                           /\ ret'.status = s /\ ValidationFailure(ret'))
             /\ \E h \in issued :
                  ENABLED (/\ StatusCall(op, h)
                           /\ ret'.status = s /\ TransportFailure(ret')))

\* ------------------------------------------------------------- logging
\* databento::LogLevel, and the integer static_cast<int> yields for a level.
LogLevel == {"Debug", "Info", "Warning", "Error"}

Ordinal(level) ==
    CASE level = "Debug" -> 0
      [] level = "Info" -> 1
      [] level = "Warning" -> 2
      [] level = "Error" -> 3

\* The switch of dbento_live_set_log_level, for the integers it accepts.
LevelOf(level) ==
    CASE level = 0 -> "Debug"
      [] level = 1 -> "Info"
      [] level = 2 -> "Warning"
      [] level = 3 -> "Error"

\* StderrLogReceiver::ShouldLog with a strict comparison.
ShouldLog_Strict(level, min_level_) == Ordinal(level) > Ordinal(min_level_)

\* StderrLogReceiver::ShouldLog
ShouldLog(level, min_level_) == Ordinal(level) >= Ordinal(min_level_)

\* The client of wrapper w hands a message of `level` to the sink it was
\* built with (ILogReceiver::Receive).  The sink is a raw pointer to the
\* wrapper's log_receiver: once that member has been destroyed the call goes
\* to a freed object.
Receive(w, level) ==
    /\ wheap[w].alloc
    /\ wheap[w].client # NULL
    /\ IF wheap[w].log_receiver # "live"
       THEN /\ uaf' = TRUE
            /\ Returned([NoReturn EXCEPT !.ub = TRUE,
                                         !.log = <<w, level, "undefined">>])
            /\ UNCHANGED <<heap, handles_, wheap, issued, stale, double_free>>
       ELSE /\ Returned([NoReturn EXCEPT !.log =
                           <<w, level,
                             IF ShouldLog(level, wheap[w].min_level)
                             THEN "stderr" ELSE "dropped">>])
            /\ UNCHANGED <<heap, handles_, wheap, issued, stale, double_free,
                           uaf>>

dbento_live_set_log_level(h, level) ==
    LET op == "dbento_live_set_log_level"
        v == ValidateAndCast(h, LiveClient) IN
    IF v.ptr = NULL THEN Reject(op, v, -1)
    ELSE IF Dangling(h, v.ptr) THEN Undefined(op)
    ELSE IF wheap[v.ptr].log_receiver = "none" THEN Fail(op, -2)
    ELSE IF level \notin 0 .. 3 THEN Fail(op, -3)
    ELSE Done(op, 0, v.ptr, [wheap[v.ptr] EXCEPT !.min_level = LevelOf(level)])

\* `delete wrapper` runs the destructor body and then destroys the members
\* in the reverse order of their declaration.  Both wrappers declare client
\* first and log_receiver second, so log_receiver is destroyed before
\* client.  The deletion is modelled in two steps: up to and including
\* log_receiver, then client and the release of the memory.
MidDestruction ==
    \E w \in WAddr : wheap[w].alloc /\ wheap[w].log_receiver = "freed"

\* dbento_live_destroy from its first statement to the destruction of
\* log_receiver inside `delete wrapper`.
dbento_live_destroy_Begin(h) ==
    LET op == "dbento_live_destroy"
        v == ValidateAndCast(h, LiveClient) IN
    IF v.ptr = NULL
    THEN /\ Returned([NoReturn EXCEPT !.err = v.err])
         /\ Retire(h, LiveClient)
         /\ UNCHANGED <<heap, handles_, wheap, double_free, uaf>>
    ELSE IF Dangling(h, v.ptr) THEN Undefined(op)
    ELSE /\ wheap' = [wheap EXCEPT ![v.ptr].is_running = FALSE,
                                   ![v.ptr].log_receiver = "freed"]
         /\ Returned([NoReturn EXCEPT !.called =
                        IF wheap[v.ptr].client # NULL THEN "BlockForStop"
                        ELSE ""])
         /\ Retire(h, LiveClient)
         /\ UNCHANGED <<heap, handles_, double_free, uaf>>

\* dbento_live_blocking_destroy from its first statement to the
\* destruction of log_receiver: ~LiveBlockingWrapper calls client->Stop()
\* first, when there is a client.
dbento_live_blocking_destroy_Begin(h) ==
    LET op == "dbento_live_blocking_destroy"
        v == ValidateAndCast(h, LiveBlocking) IN
    IF v.ptr = NULL
    THEN /\ Returned([NoReturn EXCEPT !.err = v.err])
         /\ Retire(h, LiveBlocking)
         /\ UNCHANGED <<heap, handles_, wheap, double_free, uaf>>
    ELSE IF Dangling(h, v.ptr) THEN Undefined(op)
    ELSE /\ wheap' = [wheap EXCEPT ![v.ptr].log_receiver = "freed"]
         /\ Returned([NoReturn EXCEPT !.called =
                        IF wheap[v.ptr].client # NULL THEN "Stop" ELSE ""])
         /\ Retire(h, LiveBlocking)
         /\ UNCHANGED <<heap, handles_, double_free, uaf>>

\* The rest of `delete wrapper`: the client is destroyed and the memory
\* released; dbento_live_destroy then calls DestroyValidatedHandle, while
\* dbento_live_blocking_destroy returns.
DeleteWrapper_End(w, m) ==
    LET wr == wheap[w]
        d == DestroyValidatedHandle(heap, handles_, wr.hdr, m) IN
    /\ wr.alloc
    /\ wr.log_receiver = "freed"
    /\ wheap' = [wheap EXCEPT ![w] = Deleted(wr)]
    /\ IF wr.kind = LiveClient
       THEN /\ heap' = d.heap
            /\ handles_' = d.reg
            /\ double_free' = (double_free \/ d.twice)
       ELSE UNCHANGED <<heap, handles_, double_free>>
    /\ Return("delete", 0)
    /\ UNCHANGED <<issued, stale, uaf>>

\* Integers a caller passes as the level argument.
LogLevelArgs == -1 .. 4

\* One caller thread creates clients, builds them, starts them, sets log
\* levels and destroys them, while the clients log.  A caller's next call begins when
\* its destroy call has returned; a client logs at any time it exists.
NextLog ==
    \/ /\ ~MidDestruction
       /\ \E ds \in {"", "GLBX"}, b \in BOOLEAN :
            dbento_live_create_ex("key", ds, b)
    \/ /\ ~MidDestruction
       /\ dbento_live_blocking_create_ex("key", "GLBX")
    \/ /\ ~MidDestruction
       /\ \E h \in HAddr, b \in BOOLEAN :
            dbento_live_subscribe(h, "GLBX", "mbo", OneSymbol, b, "ok")
    \/ /\ ~MidDestruction
       /\ \E h \in HAddr, b \in BOOLEAN :
            dbento_live_blocking_subscribe(h, "GLBX", "mbo", OneSymbol, b, "ok")
    \/ /\ ~MidDestruction
       /\ \E h \in HAddr : dbento_live_start(h, AllCallbacks, "ok")
    \/ /\ ~MidDestruction
       /\ \E h \in HAddr : dbento_live_blocking_start(h, "ok", "ok")
    \/ /\ ~MidDestruction
       /\ \E h \in Handles, n \in LogLevelArgs : dbento_live_set_log_level(h, n)
    \/ \E w \in WAddr, level \in LogLevel : Receive(w, level)
    \/ /\ ~MidDestruction
       /\ \E h \in HAddr : dbento_live_destroy_Begin(h)
    \/ /\ ~MidDestruction
       /\ \E h \in HAddr : dbento_live_blocking_destroy_Begin(h)
    \/ \E w \in WAddr, m \in FreedMagic : DeleteWrapper_End(w, m)

SpecLog == InitConc /\ [][NextLog]_vars

\* C22: whenever a wrapper holds a client, the sink that client was built
\* with is the wrapper's own log receiver and that receiver has not been
\* freed; this holds at every point up to the destruction of the client,
\* the steps of `delete wrapper` included.
C22_SinkIsLiveOwnReceiver ==
    \A w \in WAddr :
      wheap[w].alloc /\ wheap[w].client # NULL =>
        wheap[w].sink = "own" /\ wheap[w].log_receiver = "live"

\* The severities in increasing order, as the claim ranks them.
SeverityOrder == <<"Debug", "Info", "Warning", "Error">>
Rank(level) == CHOOSE i \in 1 .. Len(SeverityOrder) : SeverityOrder[i] = level

\* The handle is one dbento_live_set_log_level accepts.
LiveHandle(h) ==
    LET v == ValidateAndCast(h, LiveClient) IN
    v.ptr # NULL /\ ~Dangling(h, v.ptr)

\* C23: a message of level L handed to a live log receiver is written iff L
\* ranks at least as high as the receiver's current minimum in Debug < Info
\* < Warning < Error; a wrapper that has just been created has the minimum
\* Info; dbento_live_set_log_level(h, n) on a valid push-mode handle sets
\* the minimum to the n-th level for n in 0..3, and for any other n returns
\* a negative status and changes nothing.
C23_LogLevelFilter ==
    [][/\ \A w \in WAddr, L \in LogLevel :
            Receive(w, L) /\ ~ret'.ub =>
              (ret'.log[3] = "stderr" <=> Rank(L) >= Rank(wheap[w].min_level))
       /\ \A w \in WAddr :
            ~wheap[w].alloc /\ wheap'[w].alloc => wheap'[w].min_level = "Info"
       /\ \A h \in HAddr, n \in LogLevelArgs :
            LiveHandle(h) /\ dbento_live_set_log_level(h, n) =>
              IF n \in 0 .. 3
              THEN /\ ret'.status = 0
                   /\ wheap'[heap[h].wrapper_ptr].min_level = SeverityOrder[n + 1]
              ELSE ret'.status < 0 /\ wheap' = wheap
      ]_vars

\* A client logged at the minimum level dbento_live_set_log_level had
\* raised to Warning, and the message was written.
C23_Witness ==
    /\ Len(ret.log) = 3
    /\ ret.log[2] = "Warning"
    /\ ret.log[3] = "stderr"
    /\ wheap[ret.log[1]].min_level = "Warning"

\* Apart from the steps of `delete wrapper`, a client's sink is the live
\* receiver of its own wrapper.
SinkLiveOutsideDestruction ==
    \A w \in WAddr :
      wheap[w].alloc /\ wheap[w].client # NULL /\ wheap[w].log_receiver # "freed"
        => wheap[w].sink = "own" /\ wheap[w].log_receiver = "live"

\* ----------------------------------------- the registry lock, step by step
\* ValidateAndCast as the steps a caller thread takes: the read of the magic
\* number, HandleRegistry::IsRegistered (lock mutex_, find, unlock), the
\* reads of the type tag and the wrapper pointer.  HandleRegistry::mutex_
\* is held by a thread from the step that locks it to the step that leaves
\* IsRegistered, that is, while the thread is at "find".
HoldsRegistry_WholeCall(t) ==
    threads[t].pc \notin {"idle", "ub", "magic", "lock"}

HoldsRegistry(t) == threads[t].pc = "find"

RegistryFree == \A t \in Threads : ~HoldsRegistry(t)

\* The calls made beside the stream: thread 1 works with the pull-mode
\* client (handle 2), every other thread stops or destroys the push-mode
\* client (handle 1).
LockCalls(t) ==
    IF t = 1 THEN {[op |-> "dbento_live_blocking_subscribe", h |-> 2]}
    ELSE {[op |-> "dbento_live_stop", h |-> 1],
          [op |-> "dbento_live_destroy", h |-> 1]}

\* The record callback of wrapper w is running (OnRecord holds
\* callback_mutex around it); the label names the invocation.
InCallback(w) == wheap[w].alloc /\ wheap[w].thread = "invoke"
CallbackLabel(w) == "callback " \o ToString(delivery[w].delivered)

\* A thread calls entry point op on handle h.  The ghost `steps` starts with
\* the callback invocations in progress at this moment.
ValidateAndCast_Enter(t, op, h) ==
    /\ threads[t].pc = "idle"
    /\ ThreadOnly(t, [pc |-> "magic", op |-> op, h |-> h, w |-> NULL,
                      overlap |-> h \notin stale, used |-> NULL,
                      steps |-> IF InCallback(1) THEN <<CallbackLabel(1)>>
                                ELSE <<>>])

\* The entry point returns because validation failed.
ValidateAndCast_Failed(t, err) ==
    /\ threads' = [threads EXCEPT ![t].pc = "idle"]
    /\ IF err = "WrongType" THEN UNCHANGED <<issued, stale>>
       ELSE RetireOnReturn(threads[t].op, threads[t].h)
    /\ UNCHANGED <<heap, handles_, wheap, double_free, uaf, ret, delivery>>

\* if (header->magic != HANDLE_MAGIC) return nullptr;
ValidateAndCast_Magic(t) ==
    /\ threads[t].pc = "magic"
    /\ IF heap[threads[t].h].magic # HANDLE_MAGIC
       THEN ValidateAndCast_Failed(t, "InvalidMagic")
       ELSE ThreadOnly(t, [threads[t] EXCEPT !.pc = "lock"])

\* IsRegistered: std::lock_guard<std::mutex> lock(mutex_);
IsRegistered_Lock(t) ==
    /\ threads[t].pc = "lock"
    /\ RegistryFree
    /\ ThreadOnly(t, [threads[t] EXCEPT !.pc = "find"])

\* IsRegistered: the lookup, and the return that releases mutex_.
IsRegistered_Find(t) ==
    /\ threads[t].pc = "find"
    /\ IF ~IsRegistered(handles_, threads[t].h)
       THEN ValidateAndCast_Failed(t, "NotRegistered")
       ELSE ThreadOnly(t, [threads[t] EXCEPT !.pc = "type"])

\* The checks of header->type and header->wrapper_ptr, and the return of
\* the wrapper pointer to the entry point.
ValidateAndCast_Type(t) ==
    LET th == threads[t]
        header == heap[th.h] IN
    /\ th.pc = "type"
    /\ IF header.type # ExpectedType(th.op)
       THEN ValidateAndCast_Failed(t, "WrongType")
       ELSE IF header.wrapper_ptr = NULL
       THEN ValidateAndCast_Failed(t, "NullWrapperPtr")
       ELSE ThreadOnly(t, [th EXCEPT !.pc = FirstStep(th.op),
                                     !.w = header.wrapper_ptr,
                                     !.steps = Append(@, "validated")])

\* DestroyValidatedHandle takes mutex_ inside Unregister.
Unregister_Handle(t, m) ==
    /\ RegistryFree
    /\ Destroy_Handle(t, m)

\* A started push-mode stream (handle 1: created, subscribed, started with
\* every callback) and a pull-mode client (handle 2).
InitLock ==
    /\ heap = [a \in HAddr |-> IF a = 1 THEN HandleHeader(LiveClient, 1)
                                ELSE IF a = 2 THEN HandleHeader(LiveBlocking, 2)
                                ELSE NoHeader]
    /\ handles_ = {1, 2}
    /\ wheap = [w \in WAddr |->
                  IF w = 1
                  THEN [StoreCallbacks(Build(NewWrapper(LiveClient, 1, "")),
                                       AllCallbacks, FALSE)
                          EXCEPT !.once = "done", !.dataset = "GLBX",
                                 !.thread = "wait"]
                  ELSE IF w = 2 THEN NewWrapper(LiveBlocking, 2, "GLBX")
                  ELSE NoWrapper]
    /\ issued = {1, 2}
    /\ stale = {}
    /\ double_free = FALSE
    /\ uaf = FALSE
    /\ ret = NoReturn
    /\ threads = [t \in Threads |-> Idle]
    /\ delivery = [w \in WAddr |-> NoDelivery]

NextLock ==
    \/ \E t \in Threads : \E c \in LockCalls(t) : ValidateAndCast_Enter(t, c.op, c.h)
    \/ \E t \in Threads : ValidateAndCast_Magic(t)
    \/ \E t \in Threads : IsRegistered_Lock(t)
    \/ \E t \in Threads : IsRegistered_Find(t)
    \/ \E t \in Threads : ValidateAndCast_Type(t)
    \/ \E t \in Threads : Stop_StoreFlag(t)
    \/ \E t \in Threads : EnsureClientCreated_Test(t)
    \/ \E t \in Threads, b \in BOOLEAN : EnsureClientCreated_Build(t, b)
    \/ \E t \in Threads : Subscribe_Call(t)
    \/ \E t \in Threads : Destroy_Phase1(t)
    \/ \E t \in Threads : Destroy_Phase2(t)
    \/ \E t \in Threads : Destroy_Phase3(t)
    \/ \E t \in Threads : Destroy_Phase4(t)
    \/ \E t \in Threads, m \in FreedMagic : Unregister_Handle(t, m)
    \/ \E w \in WAddr : OnRecord_Lock(w)
    \/ \E w \in WAddr : OnRecord_Check(w)
    \/ \E w \in WAddr, o \in CallbackOutcomes, e \in ErrorCallbackOutcomes :
         OnRecord_Invoke(w, o, e)
    \/ \E w \in WAddr : OnRecord_Return(w)

\* A caller thread inside ValidateAndCast is scheduled, and a thread waiting
\* for mutex_ gets it when it is released often enough.  Nothing is assumed
\* of the processing thread nor of the callbacks it runs: a record callback
\* may never return.
SpecLock ==
    /\ InitLock
    /\ [][NextLock]_vars
    /\ \A t \in Threads :
         /\ WF_vars(ValidateAndCast_Magic(t))
         /\ SF_vars(IsRegistered_Lock(t))
         /\ WF_vars(IsRegistered_Find(t))
         /\ WF_vars(ValidateAndCast_Type(t))

\* Positions at which a caller thread acquires a callback lock or is inside
\* a call of the underlying client.
OutsideCalls == {"phase2", "phase3", "build_blocking", "build_threaded", "call"}
InValidation(t) == threads[t].pc \in {"magic", "lock", "find", "type"}

\* C24: no thread holds the registry lock at a position where it acquires a
\* callback lock or calls the underlying client, the lock is held by one
\* thread at most, and a thread inside ValidateAndCast always leaves it,
\* whatever the processing thread does and however long a record callback
\* holds the callback lock of its wrapper.
C24_ValidationNeverWaitsForCallback ==
    /\ [](\A t \in Threads : HoldsRegistry(t) => threads[t].pc \notin OutsideCalls)
    /\ [](\A t, u \in Threads : HoldsRegistry(t) /\ HoldsRegistry(u) => t = u)
    /\ \A t \in Threads : InValidation(t) ~> ~InValidation(t)

\* A call on the pull-mode handle 2 has passed ValidateAndCast while one and
\* the same record callback of wrapper 1 was running under its callback
\* lock, and a destroy of handle 1 is waiting for that lock.
C24_Witness ==
    \E t, u \in Threads :
      /\ threads[t].h = 2
      /\ threads[t].pc = "test_client"
      /\ InCallback(1)
      /\ wheap[1].callback_mutex = "thread"
      /\ threads[t].steps = <<CallbackLabel(1), "validated">>
      /\ threads[u].pc = "phase3"

\* ------------------------------------------- start on a running stream
\* dbento_live_start / dbento_live_start_ex called while the client's
\* processing thread exists (a second start, or a start after
\* dbento_live_stop, which does not wait for the thread).  Nothing in the
\* entry point tests for it: the callbacks, the context and the flag are
\* stored as on the first start, without callback_mutex, and client->Start is
\* called.  What Start does then is the client library's business; the
\* thread that exists goes on either way.
LiveStart_Running(op, h, cb, ex, call) ==
    LET v == ValidateAndCast(h, LiveClient) IN
    IF v.ptr = NULL THEN Reject(op, v, -1)
    ELSE IF Dangling(h, v.ptr) THEN Undefined(op)
    ELSE LET w == v.ptr IN
         /\ wheap[w].thread \in LivePositions
         /\ IF wheap[w].client = NULL
            THEN FailMsg(op, -1, "Client not initialized")
            ELSE IF ~cb.on_record
            THEN FailMsg(op, -2, "Record callback cannot be null")
            ELSE Invoke(op, "Start", call, 0, w, StoreCallbacks(wheap[w], cb, ex))

\* The callbacks and the context of a second start differ from the first.
RestartArgs ==
    {[on_metadata |-> FALSE, on_record |-> TRUE, on_error |-> FALSE,
      user_data |-> 2]}

NextRestart ==
    \/ NextStream
    \/ \E h \in issued, cb \in RestartArgs, c \in SeqCalls :
         LiveStart_Running("dbento_live_start", h, cb, FALSE, c)
    \/ \E h \in issued, cb \in RestartArgs, c \in SeqCalls :
         LiveStart_Running("dbento_live_start_ex", h, cb, TRUE, c)

SpecRestart == InitStream /\ [][NextRestart]_vars

\* What the processing thread reads of a wrapper besides the running flag.
CallbackFields(wr) ==
    <<wr.record_callback, wr.metadata_callback, wr.error_callback, wr.user_data>>

\* The processing thread of w is inside the metadata lambda or inside
\* OnRecord before its last statement: it reads the callbacks and the
\* context.
DeliveryReads(w) ==
    wheap[w].alloc /\ wheap[w].thread \in {"metadata", "check", "invoke"}

\* C25: the callback references and the user context of a wrapper are
\* never written while the processing thread is at a position where it
\* reads them (the running flag alone changes under a running delivery).
C25_CallbacksNotWrittenDuringDelivery ==
    [][\A w \in WAddr :
         DeliveryReads(w) /\ wheap'[w].alloc =>
           CallbackFields(wheap'[w]) = CallbackFields(wheap[w])]_vars

\* ------------------------------------- stop_and_wait beside the stream
\* dbento_live_stop_and_wait up to the call of BlockForStop: validation,
\* is_running.store(false), the test of the client pointer.  handle is a
\* live push-mode handle.
StopAndWait_Begin(t, h) ==
    LET v == ValidateAndCast(h, LiveClient)
        w == v.ptr IN
    /\ threads[t].pc = "idle"
    /\ v.ptr # NULL /\ ~Dangling(h, v.ptr)
    /\ wheap' = [wheap EXCEPT ![w].is_running = FALSE]
    /\ IF wheap[w].client = NULL
       THEN /\ ret' = [NoReturn EXCEPT !.status = 0]
            /\ UNCHANGED threads
       ELSE /\ threads' = [threads EXCEPT ![t] =
                             [Idle EXCEPT !.pc = "block_for_stop",
                                          !.op = "dbento_live_stop_and_wait",
                                          !.h = h, !.w = w]]
            /\ UNCHANGED ret
    /\ UNCHANGED <<heap, handles_, issued, stale, double_free, uaf, delivery>>

\* What BlockForStop(timeout) returns, as the comment at its call site
\* states its contract: Stop when the processing thread has exited,
\* Continue when the timeout elapsed first.  For a client that was never
\* started, and for a thread an exception ended, the files say nothing:
\* either result.
BlockForStop(wr) ==
    IF wr.thread = "exited" THEN {"stop"}
    ELSE IF wr.thread \in LivePositions THEN {"continue"}
    ELSE {"stop", "continue"}

\* BlockForStop returns and dbento_live_stop_and_wait maps the result to
\* its status: 1 for Continue, 0 otherwise.
StopAndWait_Return(t, result) ==
    LET th == threads[t] IN
    /\ th.pc = "block_for_stop"
    /\ wheap[th.w].alloc
    /\ result \in BlockForStop(wheap[th.w])
    /\ threads' = [threads EXCEPT ![t] = Idle]
    /\ ret' = [NoReturn EXCEPT !.status = IF result = "continue" THEN 1 ELSE 0,
                               !.called = "BlockForStop"]
    /\ UNCHANGED <<heap, handles_, wheap, issued, stale, double_free, uaf,
                   delivery>>

\* A stream that is started once and stopped, with callers in
\* dbento_live_stop_and_wait while the processing thread runs.
NextWait ==
    \/ NextStream
    \/ \E t \in Threads, h \in issued : StopAndWait_Begin(t, h)
    \/ \E t \in Threads, r \in {"stop", "continue"} : StopAndWait_Return(t, r)

SpecWait == InitStream /\ [][NextWait]_vars

\* The step is the return of a dbento_live_stop_and_wait of thread t.
StopAndWaitReturns(t) ==
    \E r \in {"stop", "continue"} : StopAndWait_Return(t, r)

\* C26 (as claimed): when dbento_live_stop_and_wait returns from its wait,
\* it returns 0 only if no processing thread is running and 1 exactly when
\* the processing thread is still running; the return leaves the running
\* flag as the call set it and the handle valid.
C26_StopAndWaitStatus ==
    [][\A t \in Threads :
         StopAndWaitReturns(t) =>
           LET wr == wheap[threads[t].w] IN
           /\ ret'.status = 0 => wr.thread \notin LivePositions
           /\ ret'.status = 1 <=> wr.thread \in LivePositions
           /\ wheap'[threads[t].w].is_running = wr.is_running
           /\ ValidateAndCastIn(heap', handles_', threads[t].h, LiveClient).ptr
                = threads[t].w]_vars

\* C26 for clients whose stream was started and whose processing thread no
\* exception has ended.
C26_StopAndWaitStatus_Started ==
    [][\A t \in Threads :
         StopAndWaitReturns(t)
         /\ wheap[threads[t].w].thread \in LivePositions \cup {"exited"} =>
           LET wr == wheap[threads[t].w] IN
           /\ ret'.status = 0 <=> wr.thread = "exited"
           /\ ret'.status = 1 <=> wr.thread \in LivePositions
           /\ wheap'[threads[t].w].is_running = wr.is_running
           /\ ValidateAndCastIn(heap', handles_', threads[t].h, LiveClient).ptr
                = threads[t].w]_vars

\* Calls with well-formed arguments on a client that can connect, through
\* the entry point of the handle's mode.
GoodSubscribeCall(h) ==
    IF heap[h].type = LiveClient
    THEN dbento_live_subscribe(h, "GLBX", "mbo", OneSymbol, TRUE, "ok")
    ELSE dbento_live_blocking_subscribe(h, "GLBX", "mbo", OneSymbol, TRUE, "ok")

GoodStartCall(h) ==
    IF heap[h].type = LiveClient
    THEN dbento_live_start(h, AllCallbacks, "ok")
    ELSE dbento_live_blocking_start(h, "ok", "ok")

\* h is a live handle of a wrapper whose client has not been built.
Unbuilt(h) ==
    /\ h \in issued
    /\ heap[h].alloc
    /\ wheap[heap[h].wrapper_ptr].alloc
    /\ wheap[heap[h].wrapper_ptr].hdr = h
    /\ wheap[heap[h].wrapper_ptr].client = NULL

\* The first subscribe builds the client, and dbento_live_create_ex with a
\* non-empty dataset returns a wrapper whose client is built.
SubscribeAndCreateExBuild ==
    [][/\ \A h \in HAddr :
            Unbuilt(h) /\ GoodSubscribeCall(h) =>
              wheap'[heap[h].wrapper_ptr].client # NULL
       /\ dbento_live_create_ex("key", "GLBX", TRUE) =>
            /\ ret'.ptr # NULL
            /\ wheap'[heap'[ret'.ptr].wrapper_ptr].client # NULL
       /\ dbento_live_create_ex("key", "", TRUE) =>
            /\ ret'.ptr # NULL
            /\ wheap'[heap'[ret'.ptr].wrapper_ptr].client = NULL]_vars

\* C27: on a wrapper whose client has not been built, a subscribe call and
\* a start call each build it, and dbento_live_create_ex with a non-empty
\* dataset returns a wrapper whose client is built.
C27_LazyOrEagerConstruction ==
    [][/\ \A h \in HAddr :
            Unbuilt(h) /\ (GoodSubscribeCall(h) \/ GoodStartCall(h)) =>
              wheap'[heap[h].wrapper_ptr].client # NULL
       /\ dbento_live_create_ex("key", "GLBX", TRUE) =>
            /\ ret'.ptr # NULL
            /\ wheap'[heap'[ret'.ptr].wrapper_ptr].client # NULL]_vars

\* ------------------------------- CreateValidatedHandle as a function
\* CreateValidatedHandle applied to every handle type and every wrapper
\* pointer, the null pointer included, on a registry that handles enter and
\* leave; `a` is the address operator new returns.
CreateCall(a, type, wrapper_ptr) ==
    LET c == CreateValidatedHandle(heap, handles_, a, type, wrapper_ptr) IN
    /\ a \in FreeHeaders
    /\ heap' = c.heap
    /\ handles_' = c.reg
    /\ Returned([NoReturn EXCEPT !.ptr = c.handle,
                                 !.called = "CreateValidatedHandle"])
    /\ UNCHANGED <<wheap, issued, stale, double_free, uaf>>

DestroyCall(handle, m) ==
    LET d == DestroyValidatedHandle(heap, handles_, handle, m) IN
    /\ handle \in handles_
    /\ heap' = d.heap
    /\ handles_' = d.reg
    /\ Returned([NoReturn EXCEPT !.called = "DestroyValidatedHandle"])
    /\ UNCHANGED <<wheap, issued, stale, double_free, uaf>>

WrapperPointers == {NULL} \cup WAddr

NextCreate ==
    \/ \E a \in HAddr, t \in HandleType, p \in WrapperPointers : CreateCall(a, t, p)
    \/ \E h \in HAddr, m \in FreedMagic : DestroyCall(h, m)
    \/ \E h \in Handles, t \in HandleType : ValidateCall(h, t)

SpecCreate == Init /\ [][NextCreate]_vars

\* C28: CreateValidatedHandle with a null wrapper pointer returns the null
\* handle and changes neither the registry nor any header; with a non-null
\* wrapper pointer it returns a registered handle whose header has the
\* live marker and the given type, and ValidateAndCast of that handle
\* against that type yields the wrapper.
C28_CreateValidatedHandle ==
    [][\A a \in HAddr, t \in HandleType, p \in WrapperPointers :
         CreateCall(a, t, p) =>
           IF p = NULL
           THEN ret'.ptr = NULL /\ handles_' = handles_ /\ heap' = heap
           ELSE /\ ret'.ptr \in handles_'
                /\ heap'[ret'.ptr].magic = HANDLE_MAGIC
                /\ heap'[ret'.ptr].type = t
                /\ ValidateAndCastIn(heap', handles_', ret'.ptr, t)
                     = [ptr |-> p, err |-> "Success"]]_vars

\* CreateValidatedHandle has just been called with a null wrapper pointer
\* on a registry that holds a handle created before.
C28_Witness ==
    /\ ret.called = "CreateValidatedHandle"
    /\ ret.ptr = NULL
    /\ \E h \in handles_ :
         ValidateAndCastIn(heap, handles_, h, heap[h].type).err = "Success"

\* The processing thread of w passes the flag test of OnRecord in this step.
PassesCheck(w) == wheap[w].thread # "invoke" /\ wheap'[w].thread = "invoke"

\* The record callback of w is invoked in this step.
RecordCallbackBegins(w) ==
    delivery'[w].record_calls # delivery[w].record_calls

\* A delivery of w that finds the flag false ends in this step: it returns
\* Stop and has invoked neither the record nor the error callback.
StopsWithoutCallback(w) ==
    wheap[w].thread = "check" /\ ~wheap[w].is_running /\ wheap'[w].thread # "check"
      => /\ wheap'[w].thread = "exited"
         /\ delivery'[w].result = "Stop"
         /\ delivery'[w].record_calls = delivery[w].record_calls
         /\ delivery'[w].record_errors = delivery[w].record_errors

SpecWaitFair ==
    /\ InitStream
    /\ [][NextWait]_vars
    /\ \A w \in WAddr :
         /\ WF_vars(\E o \in CallbackOutcomes, e \in ErrorCallbackOutcomes :
                      MetadataLambda(w, o, e))
         /\ WF_vars(OnRecord_Lock(w))
         /\ WF_vars(OnRecord_Check(w))
         /\ WF_vars(\E o \in CallbackOutcomes, e \in ErrorCallbackOutcomes :
                      OnRecord_Invoke(w, o, e))
         /\ WF_vars(OnRecord_Return(w))

\* The processing thread of w is inside OnRecord, and leaves it in this step.
InOnRecord(w) == wheap[w].thread \in {"check", "invoke", "return"}
LeavesOnRecord(w) ==
    InOnRecord(w) /\ wheap'[w].thread \notin {"check", "invoke", "return"}

\* The flag of w is cleared while its processing thread exists and one more
\* record is on its way or being delivered.
StopPending(w) ==
    /\ wheap[w].alloc
    /\ ~wheap[w].is_running
    /\ \/ InOnRecord(w)
       \/ /\ wheap[w].thread \in {"metadata", "wait"}
          /\ delivery[w].delivered < MaxRecords

\* How OnRecord ends, and what a dbento_live_stop_and_wait reports once the
\* thread has exited.
BridgeResult ==
    [][/\ \A w \in WAddr :
            LeavesOnRecord(w) /\ delivery'[w].result # "exception" =>
              /\ delivery'[w].result = "Continue" <=> wheap'[w].is_running
              /\ ~wheap'[w].is_running => delivery'[w].result = "Stop"
       /\ \A t \in Threads :
            StopAndWaitReturns(t) /\ wheap[threads[t].w].thread = "exited" =>
              ret'.status = 0]_vars

\* C30 where no exception leaves the bridge: the thread ends, by a Stop
\* or by the exception of an error callback.
C30_StopTerminates_OrEscapes ==
    /\ BridgeResult
    /\ \A w \in WAddr :
         StopPending(w) ~> wheap[w].thread \in {"exited", "escaped"}

\* C30: OnRecord ends with Continue iff the flag is true at that moment and
\* with Stop when it is false; once the flag is cleared and a record is
\* still to come, the processing thread exits; dbento_live_stop_and_wait
\* on a thread that has exited returns 0.
C30_StopTerminates ==
    /\ [][/\ \A w \in WAddr :
               LeavesOnRecord(w) =>
                 /\ delivery'[w].result = "Continue" <=> wheap'[w].is_running
                 /\ ~wheap'[w].is_running => delivery'[w].result = "Stop"
          /\ \A t \in Threads :
               StopAndWaitReturns(t) /\ wheap[threads[t].w].thread = "exited" =>
                 ret'.status = 0]_vars
    /\ \A w \in WAddr : StopPending(w) ~> wheap[w].thread = "exited"

\* ------------------------------------------- start without a callback
\* dbento_live_start or dbento_live_start_ex on h with the callbacks of cb.
StartCall(h, cb, call) ==
    dbento_live_start(h, cb, call) \/ dbento_live_start_ex(h, cb, call)

\* C31: dbento_live_start and dbento_live_start_ex called with a null
\* record callback return an error status, call no method of the client and
\* leave every wrapper as it was (running flag, callbacks, context, no
\* processing thread started); with a record callback, on a built push-mode
\* client whose Start returns, they return 0 whether or not the error and
\* the metadata callback are null, and store the callbacks as passed.
C31_NullRecordCallbackRejected ==
    [][\A h \in issued, cb \in StreamStartArgs \cup StartArgs :
         /\ (~cb.on_record /\ \E c \in CallOutcomes : StartCall(h, cb, c))
            => /\ ret'.status < 0
               /\ ret'.called = ""
               /\ ~ret'.escaped
               /\ UNCHANGED <<heap, handles_, wheap>>
         /\ (/\ cb.on_record
             /\ heap[h].type = LiveClient
             /\ wheap[heap[h].wrapper_ptr].client # NULL
             /\ StartCall(h, cb, "ok"))
            => /\ ret'.status = 0
               /\ ret'.called = "Start"
               /\ wheap'[heap[h].wrapper_ptr].record_callback
               /\ wheap'[heap[h].wrapper_ptr].error_callback = cb.on_error
               /\ wheap'[heap[h].wrapper_ptr].is_running
      ]_vars

\* A start without a record callback was refused on a built client that an
\* earlier start had given a record callback and no error callback, and
\* that was stopped since: callbacks and flag are those of before the call.
C31_Witness ==
    /\ ret.status = -2
    /\ ret.msg = "Record callback cannot be null"
    /\ \E h \in issued :
         LET wr == wheap[heap[h].wrapper_ptr] IN
         /\ heap[h].type = LiveClient
         /\ wr.client # NULL
         /\ wr.record_callback
         /\ ~wr.error_callback
         /\ ~wr.metadata_callback
         /\ ~wr.is_running
         /\ wr.thread # "none"

\* ------------------------------------------------- subscribe calls
\* One push-mode and one pull-mode client, neither destroyed: every
\* subscribe entry point is called on them with either dataset or an empty
\* one, a known or an unknown schema name, one symbol, and every behaviour
\* of the underlying client; the push-mode stream is started and stopped
\* in between.
SubscribeCallArgs ==
    [dataset : Datasets \cup {""}, schema : {"mbo", "bogus"},
     symbols : {OneSymbol}, build_ok : BOOLEAN, call : CallOutcomes]

NextSubscribe ==
    \E h \in issued :
    \/ \E c \in SeqCalls : dbento_live_start(h, AllCallbacks, c)
    \/ dbento_live_stop(h)
    \/ \E a \in SubscribeCallArgs :
      \/ dbento_live_subscribe(h, a.dataset, a.schema, a.symbols,
                              a.build_ok, a.call)
      \/ dbento_live_subscribe_with_snapshot(h, a.dataset, a.schema,
                                            a.symbols, a.build_ok, a.call)
      \/ dbento_live_subscribe_with_replay(h, a.dataset, a.schema,
                                          a.symbols, a.build_ok, a.call)
      \/ dbento_live_blocking_subscribe(h, a.dataset, a.schema, a.symbols,
                                       a.build_ok, a.call)
      \/ dbento_live_blocking_subscribe_with_replay(h, a.dataset, a.schema,
                                                   a.symbols, a.build_ok,
                                                   a.call)
      \/ dbento_live_blocking_subscribe_with_snapshot(h, a.dataset, a.schema,
                                                     a.symbols, a.build_ok,
                                                     a.call)

SpecSubscribe == InitConc /\ [][NextSubscribe]_vars

\* The calls whose schema argument is a non-empty string that is not one of
\* the schema names.
UnknownSchemaArgs ==
    {a \in SubscribeCallArgs :
       ValidateNonEmptyString(a.schema) /\ a.schema \notin Schemas}

\* C32: each of the six subscribe entry points, called with a schema name
\* that ParseSchema does not recognise, returns an error status and calls
\* neither Subscribe nor SubscribeWithSnapshot on the underlying client,
\* whatever the other arguments are and whatever the client would have done.
C32_UnknownSchemaRejected ==
    [][\A h \in issued, a \in UnknownSchemaArgs :
         (PushSubscribe(h, a) \/ PullSubscribe(h, a))
         => FailedWithoutCall(ret')
      ]_vars

\* A subscribe was refused for its schema name, after both wrappers had
\* been through such a call: the pull-mode one has built its client on the
\* way, the push-mode one has stored the dataset and built nothing.
C32_Witness ==
    /\ ret.status = -1
    /\ ret.msg = "Unknown schema"
    /\ ret.called = ""
    /\ \E h \in issued :
         /\ heap[h].type = LiveBlocking
         /\ wheap[heap[h].wrapper_ptr].client # NULL
    /\ \E h \in issued :
         /\ heap[h].type = LiveClient
         /\ wheap[heap[h].wrapper_ptr].dataset = "GLBX"
         /\ wheap[heap[h].wrapper_ptr].client = NULL


\* C33: a subscribe call of either wrapper that returns an error status
\* leaves every wrapper as it was: the stored dataset is the one of before
\* the call and no client has been built by it.
C33_FailedSubscribeChangesNothing ==
    [][\A h \in issued, a \in SubscribeCallArgs :
         ((PushSubscribe(h, a) \/ PullSubscribe(h, a))
            /\ ret'.status < 0 /\ ~ret'.escaped)
         => UNCHANGED wheap
      ]_vars


\* ------------------------------------------ two destroys of one handle
\* Thread t is inside a dbento_live_destroy that it entered before any
\* destroy of that handle had returned (alone, or beside another one), and
\* the handle has passed the validation of the call.
DestroysLiveHandle(t) ==
    /\ threads[t].op = "dbento_live_destroy"
    /\ threads[t].pc \notin {"idle", "validate", "ub"}
    /\ threads[t].overlap

\* C34: however the steps of dbento_live_destroy calls on one valid handle
\* interleave, no step of such a call frees the wrapper or the header a
\* second time or goes through a freed wrapper, and when the call returns
\* the registry does not hold the handle.
C34_ConcurrentDestroyFreesOnce ==
    [][\A t \in Threads :
         (DestroysLiveHandle(t) /\ threads'[t] # threads[t])
         => /\ threads'[t].pc # "ub"
            /\ double_free' = double_free
            /\ uaf' = uaf
            /\ threads'[t].pc = "idle" => threads[t].h \notin handles_'
      ]_vars


\* ------------------------------------------ destroy called by a callback
\* The record callback (or the error callback called from a catch block of
\* OnRecord) calls dbento_live_destroy on the handle of its own stream.  The
\* call runs on the processing thread, inside OnRecord's lock_guard; its
\* steps are those of thread CallbackThread, and the processing thread stays
\* in the callback until the call returns.
CallbackThread == MaxThreads

Callback_Destroy(w) ==
    LET wr == wheap[w] IN
    /\ wr.alloc /\ wr.thread = "invoke" /\ wr.record_callback
    /\ threads[CallbackThread].pc = "idle"
    /\ wheap' = [wheap EXCEPT ![w].thread = "callback"]
    /\ threads' = [threads EXCEPT ![CallbackThread] =
                     [pc |-> "validate", op |-> "dbento_live_destroy",
                      h |-> wr.hdr, w |-> NULL, overlap |-> wr.hdr \notin stale,
                      used |-> NULL, steps |-> <<>>]]
    /\ delivery' = [delivery EXCEPT ![w].record_calls = @ + 1]
    /\ UNCHANGED <<heap, handles_, issued, stale, double_free, uaf, ret>>

\* Phase 3 of that call: std::lock_guard on callback_mutex, which the
\* calling thread holds already.  Locking a std::mutex its owner holds is
\* undefined: the thread blocks on itself for ever, or lock() throws
\* std::system_error, which the catch (...) of dbento_live_destroy swallows
\* (the call then returns with nothing freed).
RelockOutcomes == {"deadlock", "system_error"}

Destroy_Phase3_Relock(t, outcome) ==
    /\ t = CallbackThread
    /\ threads[t].pc = "phase3"
    /\ ~Gone(t)
    /\ Wrapper(t).thread = "callback"
    /\ Wrapper(t).callback_mutex = "thread"
    /\ threads' = [threads EXCEPT ![t].pc = IF outcome = "deadlock"
                                            THEN "deadlock" ELSE "idle"]
    /\ UNCHANGED <<heap, handles_, wheap, issued, stale, double_free, uaf, ret,
                   delivery>>

\* The callback returns once the call it made has returned.
Callback_Return(w) ==
    LET wr == wheap[w] IN
    /\ wr.alloc /\ wr.thread = "callback"
    /\ threads[CallbackThread].pc = "idle"
    /\ wheap' = [wheap EXCEPT ![w].thread = "return"]
    /\ UNCHANGED <<heap, handles_, issued, stale, double_free, uaf, ret,
                   threads, delivery>>

\* The steps of a dbento_live_destroy call of thread t.
DestroySteps(t) ==
    \/ Validate(t)
    \/ Destroy_Phase1(t)
    \/ Destroy_Phase2(t)
    \/ Destroy_Phase3(t)
    \/ \E o \in RelockOutcomes : Destroy_Phase3_Relock(t, o)
    \/ Destroy_Phase4(t)
    \/ \E m \in FreedMagic : Destroy_Handle(t, m)

\* The steps of the processing thread of w; every callback returns or
\* raises.
DeliverySteps(w) ==
    \/ \E o \in CallbackOutcomes, e \in ErrorCallbackOutcomes :
         MetadataLambda(w, o, e)
    \/ OnRecord_Lock(w)
    \/ OnRecord_Check(w)
    \/ \E o \in CallbackOutcomes, e \in ErrorCallbackOutcomes :
         OnRecord_Invoke(w, o, e)
    \/ Callback_Return(w)
    \/ OnRecord_Return(w)

\* A stream whose handle is destroyed by one caller thread, by a callback of
\* the stream, or by both.
NextReentrant ==
    \/ NextStream
    \/ \E t \in Threads \ {CallbackThread}, h \in issued :
         Enter(t, "dbento_live_destroy", h)
    \/ \E w \in WAddr : Callback_Destroy(w)
    \/ \E w \in WAddr : Callback_Return(w)
    \/ \E t \in Threads : Validate(t)
    \/ \E t \in Threads : Destroy_Phase1(t)
    \/ \E t \in Threads : Destroy_Phase2(t)
    \/ \E t \in Threads : Destroy_Phase3(t)
    \/ \E t \in Threads, o \in RelockOutcomes : Destroy_Phase3_Relock(t, o)
    \/ \E t \in Threads : Destroy_Phase4(t)
    \/ \E t \in Threads, m \in FreedMagic : Destroy_Handle(t, m)
    \/ \E w \in WAddr : Thread_OnFreed(w)
    \/ \E w \in WAddr : Thread_Ended(w)

\* Every thread that is inside a call goes on, and so does the processing
\* thread: the scheduler starves no thread, and the caller's callbacks
\* return.
SpecReentrant ==
    /\ InitStream
    /\ [][NextReentrant]_vars
    /\ \A t \in Threads : WF_vars(DestroySteps(t))
    /\ \A w \in WAddr : WF_vars(DeliverySteps(w))

\* Thread t is inside dbento_live_destroy with a handle that passed the
\* validation, and has not gone through a freed wrapper.
InDestroy(t) ==
    /\ threads[t].op = "dbento_live_destroy"
    /\ threads[t].pc \notin {"idle", "validate", "ub"}

\* C35: a dbento_live_destroy call on a valid handle returns, whether a
\* caller thread made it or a record or error callback running on the
\* processing thread.
C35_DestroyReturns ==
    \A t \in Threads : InDestroy(t) ~> threads[t].pc \in {"idle", "ub"}

\* ------------------------------------------------- connection state
\* What dbento_live_get_connection_state(h) returns: 0 for a handle that
\* fails validation and for a client that is not built, 3 when is_running
\* loads true, 2 otherwise.
ConnectionState(h) ==
    LET v == ValidateAndCast(h, LiveClient) IN
    IF v.ptr = NULL THEN 0
    ELSE IF wheap[v.ptr].client = NULL THEN 0
    ELSE IF wheap[v.ptr].is_running THEN 3
    ELSE 2

dbento_live_get_connection_state(h) ==
    LET op == "dbento_live_get_connection_state"
        v == ValidateAndCast(h, LiveClient) IN
    IF v.ptr # NULL /\ Dangling(h, v.ptr) THEN Undefined(op)
    ELSE /\ Returned([NoReturn EXCEPT !.status = ConnectionState(h),
                                       !.err = v.err])
         /\ UNCHANGED <<heap, handles_, wheap, issued, stale, double_free, uaf>>

\* A stream that is started, stopped, reconnected and destroyed, with the
\* connection state queried between any two steps.
NextState ==
    \/ NextStream
    \/ \E h \in Handles : dbento_live_get_connection_state(h)
    \/ \E h \in issued, c \in SeqCalls : dbento_live_reconnect(h, c)
    \/ \E h \in issued, m \in FreedMagic : dbento_live_destroy(h, m)

SpecState == InitStream /\ [][NextState]_vars

\* A start call on h succeeded and the stream has not ended since: the
\* processing thread exists and has neither returned Stop nor been left by
\* an exception.
Streaming(h) ==
    /\ h \in issued
    /\ wheap[heap[h].wrapper_ptr].thread \in LivePositions

\* C36: a start call that returns a nonzero status leaves the running flag
\* false; dbento_live_get_connection_state returns 3 only for a handle
\* whose stream a start call has started, with the flag not cleared by a
\* stop, a reconnect or a callback failure since and the handle not
\* destroyed, returns 2 when the client exists and the flag is false, and
\* returns 0 when the handle is invalid or the client is not built.
C36_ConnectionState ==
    /\ [](\A h \in Handles :
            /\ ConnectionState(h) \in {0, 2, 3}
            /\ ConnectionState(h) = 3 =>
                 Streaming(h) /\ wheap[heap[h].wrapper_ptr].is_running
            /\ (h \in handles_ /\ wheap[heap[h].wrapper_ptr].client # NULL
                  /\ ~wheap[heap[h].wrapper_ptr].is_running)
               => ConnectionState(h) = 2
            /\ (h \notin handles_ \/ wheap[heap[h].wrapper_ptr].client = NULL)
               => ConnectionState(h) = 0)
    /\ [][\A h \in issued, cb \in StreamStartArgs, c \in SeqCalls :
            (StartCall(h, cb, c) /\ ret'.status # 0)
            => ~wheap'[heap[h].wrapper_ptr].is_running]_vars


\* C37: no exception leaves the metadata lambda or OnRecord into the
\* processing thread, whatever the record, metadata and error callbacks do,
\* and once a record or metadata callback has raised the running flag is
\* false, also when the error callback that reports the failure raises.
C37_BridgeContainsExceptions ==
    \A w \in WAddr :
      /\ wheap[w].thread # "escaped"
      /\ delivery[w].result # "exception"
      /\ (wheap[w].alloc
            /\ (delivery[w].raised_at > 0 \/ delivery[w].metadata_raised))
         => ~wheap[w].is_running


\* C38: the client of a push-mode wrapper is built with the dataset stored
\* in the wrapper at that moment (SetDataset(dataset)), so the stored
\* dataset equals the one the client was built with exactly as long as no
\* step changes it afterwards: once the client of a push-mode wrapper is
\* built, no step changes the wrapper's stored dataset.
C38_DatasetFixedOnceBuilt ==
    [][\A w \in WAddr :
         (/\ wheap[w].alloc /\ wheap[w].kind = LiveClient
          /\ wheap[w].client # NULL
          /\ wheap'[w].alloc)
         => wheap'[w].dataset = wheap[w].dataset
      ]_vars


\* ------------------------------------------------- the pull-mode stream
\* dbento_live_blocking_next_record with the stream behind the client.  For
\* a pull-mode wrapper w, delivery[w].delivered counts the messages
\* NextRecord has taken off the stream (the client hands out each message
\* once, in order) and delivery[w].record_calls the messages copied into
\* the caller's buffer.  A call that ends before NextRecord is the entry
\* point as modelled above; NextRecord that returns a record has taken it
\* off the stream whatever the entry point does with it next.
NextRecord_OnStream(h, outputs, fits, timeout_ms, next) ==
    LET v == ValidateAndCast(h, LiveBlocking)
        w == v.ptr
    IN
    IF v.ptr = NULL \/ Dangling(h, v.ptr) \/ wheap[w].client = NULL \/ ~outputs
    THEN dbento_live_blocking_next_record(h, outputs, fits, timeout_ms, next)
    ELSE /\ timeout_ms < 0 => next # "timeout"
         /\ next = "record" => delivery[w].delivered < MaxRecords
         /\ ret' = [NoReturn EXCEPT
                      !.status = CASE next = "timeout" -> 1
                                   [] next = "std::exception" -> -1
                                   [] next = "other" -> 0
                                   [] next = "record" -> IF fits THEN 0 ELSE -3,
                      !.msg = CASE next = "std::exception" -> "e.what()"
                                [] next = "record" /\ ~fits ->
                                     "Record buffer too small"
                                [] OTHER -> "",
                      !.called = "NextRecord",
                      !.escaped = (next = "other"),
                      !.written = (next = "record" /\ fits)]
         /\ delivery' = [delivery EXCEPT
                           ![w].delivered = IF next = "record" THEN @ + 1 ELSE @,
                           ![w].record_calls = IF next = "record" /\ fits
                                               THEN @ + 1 ELSE @]
         /\ UNCHANGED <<heap, handles_, wheap, issued, stale, double_free, uaf,
                        threads>>

\* A pull-mode client that is subscribed, started, polled and stopped.
NextPull ==
    \E h \in issued :
      \/ \E b \in BOOLEAN, c \in SeqCalls :
           dbento_live_blocking_subscribe(h, "GLBX", "mbo", OneSymbol, b, c)
      \/ \E mb \in MetadataBuffers, c \in SeqCalls :
           dbento_live_blocking_start(h, mb, c)
      \/ \E outputs \in BOOLEAN, fits \in BOOLEAN, timeout_ms \in Timeouts,
            next \in NextRecordOutcomes :
           NextRecord_OnStream(h, outputs, fits, timeout_ms, next)
      \/ dbento_live_blocking_stop(h)

SpecPull == InitConc /\ [][NextPull]_vars

\* C39: dbento_live_blocking_next_record takes a message off the stream only
\* when it returns 0: every message the client has taken off the stream of
\* a pull-mode wrapper has been copied to the caller, so that the next
\* successful call returns the earliest message the caller has not received
\* and the caller sees the messages in order with none lost.
C39_NoMessageLost ==
    \A w \in WAddr :
      (wheap[w].alloc /\ wheap[w].kind = LiveBlocking)
      => delivery[w].delivered = delivery[w].record_calls

====
